---- MODULE Spec2Model ----
(***************************************************************************)
(* Template execution engine of tokenring-ai/template.                     *)
(*                                                                         *)
(* The model follows TemplateService.runTemplate (the inputs-based         *)
(* variant, src/TemplateService.ts:231-339) as a stack of invocation       *)
(* frames.  JavaScript runs the code between two awaits without            *)
(* interruption, so every action below is one such run-to-next-await       *)
(* segment: the entry of a top-level call, the settlement of the template  *)
(* function, the settlement of one chat dispatch, the settlement of a      *)
(* chained call, and the settlement of the top-level call.                 *)
(***************************************************************************)
EXTENDS Integers, Sequences, FiniteSets, TLC

(***************************************************************************)
(* Bounds                                                                  *)
(***************************************************************************)
MaxInputs == 2        \* longest `inputs` list a directive carries
MaxCalls == 2         \* top-level calls made in one behaviour
MaxDepth == 7         \* frames a chain may hold; never reached by the engine
MaxLoad == 2          \* entries of an object given to loadTemplates
MaxRegistry == 4      \* entries the registry map may hold; never reached by the registry

(***************************************************************************)
(* Optional values: `undefined` is None, a present value v is Some(v)       *)
(***************************************************************************)
None == <<>>
Some(v) == <<v>>
IsSome(o) == Len(o) = 1
Val(o) == o[1]

(***************************************************************************)
(* Universe of names, texts and tool lists                                 *)
(***************************************************************************)
Names == {"A", "B", "C"}
Registrable == {"A", "B"}
CallerTexts == {"", "hi"}
ToolLists == {<<>>, <<"x">>, <<"y", "z">>}      \* tool lists an agent starts with
ActiveToolLists == {<<>>, <<"y", "z">>}       \* activeTools lists of the directives
Chains == {1, 2}
Agents == {1, 2}

(***************************************************************************)
(* Values exchanged with the collaborators                                 *)
(***************************************************************************)
\* new Error(message) ; detail is the interpolated part of the message
Err(message, detail) == [message |-> message, detail |-> detail]

NameRequired == Err("Template name is required", "")
NotFound(templateName) == Err("Template not found", templateName)
Circular(nextTemplate) == Err("Circular template reference detected", nextTemplate)
ChatDidNotStop(finishReason) == Err("AI Chat did not stop as expected", finishReason)
InputRequired == Err("Input is required", "")
\* failures raised by the collaborators themselves
TemplateError == Err("Template execution error", "")
ChatError == Err("Chat dispatch failed", "")

\* AIResponse of the n-th chat dispatch of a top-level call: every dispatch
\* answers with a text of its own
ChatText(n) == "out" \o ToString(n)
FinishReasons == {"stop", "length"}
AIResponse(n, finishReason) == [text |-> ChatText(n), finishReason |-> finishReason]

NoOutput == "No output from AI."

\* one entry of the observable trace of a top-level call
Event(op, depth, name, text, list) ==
    [op |-> op, depth |-> depth, name |-> name, text |-> text, list |-> list]

(***************************************************************************)
(* Template functions.  A template function is an async function of the    *)
(* input string; it either rejects or resolves to a TemplateChatRequest.   *)
(***************************************************************************)
TemplateFunction(throws, nInputs, nextTemplate, reset, activeTools) ==
    [throws |-> throws, nInputs |-> nInputs, nextTemplate |-> nextTemplate,
     reset |-> reset, activeTools |-> activeTools]

\* the inputs list a template builds from its input
\* ([input, `Processed: ${input}`] in the fixtures)
InputsOf(nInputs, input) ==
    [k \in 1..nInputs |-> IF k = 1 THEN input ELSE "Processed" \o ToString(k) \o ": " \o input]

\* TemplateChatRequest the function resolves to
TemplateChatRequest(fn, input) ==
    [inputs |-> InputsOf(fn.nInputs, input),
     nextTemplate |-> fn.nextTemplate,
     reset |-> fn.reset,
     activeTools |-> fn.activeTools]

NoRequest == [inputs |-> <<>>, nextTemplate |-> None, reset |-> None, activeTools |-> None]

(***************************************************************************)
(* State                                                                   *)
(***************************************************************************)
VARIABLES
    templates,      \* TemplateService.templates: registered name -> template function
    enabledTools,   \* per agent: the tool list ChatService reports as enabled
    stack,          \* per chain: the runTemplate frames of the call in flight, outermost first
    call,           \* per chain: the top-level call in flight
    outcome,        \* per chain: what the caller of the last top-level call observed
    log,            \* per chain: trace of the call in flight / of the last call
    calls,          \* number of top-level calls made so far
    registry,       \* TemplateRegistry.templates: the Map, as its entries in insertion order
    lastOp,         \* the last TemplateRegistry operation: arguments, map before it, what it gave back
    everRegistered  \* names in the order in which each was registered for the first time

vars == <<templates, enabledTools, stack, call, outcome, log, calls, registry, lastOp,
          everRegistered>>

(***************************************************************************)
(* One runTemplate frame.  pc is the await the frame is suspended at, or   *)
(* how its promise settled.                                                *)
(***************************************************************************)
Frame(templateName, input, visitedTemplates) ==
    [templateName |-> templateName,
     input |-> input,
     visitedTemplates |-> visitedTemplates,
     originalTools |-> None,
     toolsChanged |-> FALSE,
     chatRequest |-> NoRequest,
     dispatched |-> 0,
     lastResult |-> None,
     pc |-> "start",
     result |-> <<>>,
     error |-> None]

\* The engine works on m = [st, tools, log]: the frames of one chain, the
\* enabled tool list of the chain's agent, and the trace.
\* F(v) with v evaluated once
Bind(v, F(_)) == CHOOSE r \in {F(x) : x \in {v}} : TRUE

Machine(st, tools, evlog) == [st |-> st, tools |-> tools, log |-> evlog]
Top(m) == m.st[Len(m.st)]
SetTop(m0, f) ==
    Bind(m0, LAMBDA m :
        [m EXCEPT !.st[Len(m.st)] = f])
Emit(m0, op, name, text, list) ==
    Bind(m0, LAMBDA m :
        [m EXCEPT !.log = Append(@, Event(op, Len(m.st), name, text, list))])

Count(evlog, op) == Len(SelectSeq(evlog, LAMBDA e : e.op = op))

\* a write that adds the tools to the enabled ones instead of replacing them
SetEnabledTools_Merge(m0, tools, why) ==
    Bind(m0, LAMBDA m :
        Emit([m EXCEPT !.tools = m.tools \o tools], "setTools", Top(m).templateName, why,
             m.tools \o tools))

\* chatService.setEnabledTools(tools, agent)
SetEnabledTools(m0, tools, why) ==
    Bind(m0, LAMBDA m :
        Emit([m EXCEPT !.tools = tools], "setTools", Top(m).templateName, why, tools))

\* a finally block that forgets the restoration
Finally_NoRestore(m) == m

\* a finally block that writes a tool list back whether or not the frame changed it
Finally_Always(m0) ==
    Bind(m0, LAMBDA m :
        LET f == Top(m)
            tools == IF IsSome(f.originalTools) THEN Val(f.originalTools) ELSE <<>>
        IN  Emit(SetEnabledTools(m, tools, "restore"),
                 "notice", f.templateName, "Restored original tools", tools))

\* finally { if (toolsChanged && originalTools !== null) ... }
Finally(m0) ==
    Bind(m0, LAMBDA m :
        LET f == Top(m) IN
        IF f.toolsChanged /\ IsSome(f.originalTools)
        THEN Emit(SetEnabledTools(m, Val(f.originalTools), "restore"),
                  "notice", f.templateName, "Restored original tools", Val(f.originalTools))
        ELSE m)

\* the frame's promise settles
Resolved(m, result) == SetTop(m, [Top(m) EXCEPT !.pc = "returned", !.result = result])
Rejected(m, err) == SetTop(m, [Top(m) EXCEPT !.pc = "threw", !.error = Some(err)])

\* `return` inside the try block: the finally block runs first
Return(m, result) == Resolved(Finally(m), result)

\* a rejection that is wrapped in a new error on its way out
Rethrow_Wrapped(m, err) == Rejected(Finally(m), Err("Template failed", err.message))

\* a rejection leaving the try block: the finally block runs first
Rethrow(m, err) == Rejected(Finally(m), err)

\* a throw that leaves the try block without running the finally block
Throw_NoCleanup(m0, err) ==
    Bind(m0, LAMBDA m :
        Rejected(Emit(m, "throw", Top(m).templateName, err.message, <<>>), err))

Throw(m0, err) ==
    Bind(m0, LAMBDA m :
        Rethrow(Emit(m, "throw", Top(m).templateName, err.message, <<>>), err))

\* this.templates.getItemByName(templateName)
GetItemByName(reg, templateName) ==
    IF templateName \in DOMAIN reg THEN Some(reg[templateName]) ELSE None

\* an entry that looks the name up before it checks that a name was given
Enter_LookupFirst(m0, reg, templateName, input, visitedTemplates) ==
    Bind(m0, LAMBDA m :
        LET pushed == [m EXCEPT !.st = Append(@, Frame(templateName, input, visitedTemplates))]
            m1 == Emit(pushed, "lookup", templateName, "", <<>>)
        IN  IF templateName = ""
            THEN Rejected(Emit(m1, "throw", templateName, NameRequired.message, <<>>), NameRequired)
            ELSE IF ~IsSome(GetItemByName(reg, templateName))
            THEN Rejected(Emit(m1, "throw", templateName, NotFound(templateName).message, <<>>),
                          NotFound(templateName))
            ELSE SetTop(Emit(m1, "invoke", templateName, input, <<>>),
                        [Top(m1) EXCEPT !.pc = "awaitTemplate"]))

\* runTemplate up to its first await: validation, lookup, template(input)
Enter(m0, reg, templateName, input, visitedTemplates) ==
    Bind(m0, LAMBDA m :
        LET pushed == [m EXCEPT !.st = Append(@, Frame(templateName, input, visitedTemplates))] IN
        IF templateName = ""
        THEN Rejected(Emit(pushed, "throw", templateName, NameRequired.message, <<>>), NameRequired)
        ELSE LET m1 == Emit(pushed, "lookup", templateName, "", <<>>) IN
             IF ~IsSome(GetItemByName(reg, templateName))
             THEN Rejected(Emit(m1, "throw", templateName, NotFound(templateName).message, <<>>),
                           NotFound(templateName))
             ELSE SetTop(Emit(m1, "invoke", templateName, input, <<>>),
                         [Top(m1) EXCEPT !.pc = "awaitTemplate"]))

Range(seq) == {seq[i] : i \in 1..Len(seq)}

\* if (chatRequest.reset) { infoMessage; agent.reset(chatRequest.reset) }
\* (an array, even an empty one, is truthy)
ApplyReset(m0, chatRequest) ==
    Bind(m0, LAMBDA m :
        IF IsSome(chatRequest.reset)
        THEN Emit(Emit(m, "notice", Top(m).templateName, "Resetting context", Val(chatRequest.reset)),
                  "reset", Top(m).templateName, "", Val(chatRequest.reset))
        ELSE m)

\* a narrowing that takes its snapshot after the replacement
NarrowTools_CaptureAfter(m0, chatRequest) ==
    Bind(m0, LAMBDA m :
        IF IsSome(chatRequest.activeTools)
        THEN LET narrowed == SetEnabledTools(m, Val(chatRequest.activeTools), "narrow")
                 captured == SetTop(narrowed, [Top(narrowed) EXCEPT
                                                 !.originalTools = Some(narrowed.tools),
                                                 !.toolsChanged = TRUE])
             IN  Emit(captured, "notice", Top(m).templateName, "Set active tools for template",
                      Val(chatRequest.activeTools))
        ELSE m)

\* if (chatRequest.activeTools && Array.isArray(chatRequest.activeTools)) { ... }
NarrowTools(m0, chatRequest) ==
    Bind(m0, LAMBDA m :
        IF IsSome(chatRequest.activeTools)
        THEN LET captured == SetTop(m, [Top(m) EXCEPT !.originalTools = Some(m.tools)])
                 narrowed == SetEnabledTools(captured, Val(chatRequest.activeTools), "narrow")
                 marked == SetTop(narrowed, [Top(narrowed) EXCEPT !.toolsChanged = TRUE])
             IN  Emit(marked, "notice", Top(m).templateName, "Set active tools for template",
                      Val(chatRequest.activeTools))
        ELSE m)

\* an output that is empty when no chat was dispatched
OutputOf_Empty(lastResult) == IF IsSome(lastResult) THEN Val(lastResult).text ELSE ""

\* lastResult?.text ?? "No output from AI."
OutputOf(lastResult) == IF IsSome(lastResult) THEN Val(lastResult).text ELSE NoOutput

\* a cycle check that never fires
IsCircular_Never(visitedTemplates, templateName, nextTemplate) == FALSE

\* visitedTemplates.includes(chatRequest.nextTemplate)
IsCircular(visitedTemplates, templateName, nextTemplate) ==
    nextTemplate \in Range(visitedTemplates)

\* a chained call that passes the visited list on without the current name
NextVisited_Drop(visitedTemplates, templateName) == visitedTemplates

\* visitedTemplates: [...visitedTemplates, templateName]
NextVisited(visitedTemplates, templateName) == Append(visitedTemplates, templateName)

\* a chained call that is fed the frame's own input
NextInput_Original(f) == f.input

\* input of the chained call
NextInput(f) == OutputOf(f.lastResult)

\* a chaining that restores the frame's tools before it makes the chained call
AfterLoop_RestoreFirst(m0, reg) ==
    Bind(m0, LAMBDA m :
        LET f == Top(m)
            result == <<[ok |-> TRUE, output |-> OutputOf(f.lastResult)]>>
            nextTemplate == f.chatRequest.nextTemplate
        IN  IF IsSome(nextTemplate) /\ Val(nextTemplate) # ""
            THEN IF IsCircular(f.visitedTemplates, f.templateName, Val(nextTemplate))
                 THEN Throw(m, Circular(Val(nextTemplate)))
                 ELSE LET m1 == Emit(Finally(m), "notice", f.templateName,
                                     "Running next template", <<Val(nextTemplate)>>)
                          m2 == SetTop(m1, [f EXCEPT !.pc = "awaitNext", !.result = result,
                                                     !.toolsChanged = FALSE])
                      IN  Enter(m2, reg, Val(nextTemplate), NextInput(f),
                                NextVisited(f.visitedTemplates, f.templateName))
            ELSE Return(m, result))

\* the part of the try block after the input loop: result assembly and chaining
AfterLoop(m0, reg) ==
    Bind(m0, LAMBDA m :
        LET f == Top(m)
            result == <<[ok |-> TRUE, output |-> OutputOf(f.lastResult)]>>
            nextTemplate == f.chatRequest.nextTemplate
        IN  IF IsSome(nextTemplate) /\ Val(nextTemplate) # ""
            THEN IF IsCircular(f.visitedTemplates, f.templateName, Val(nextTemplate))
                 THEN Throw(m, Circular(Val(nextTemplate)))
                 ELSE LET m1 == Emit(m, "notice", f.templateName, "Running next template",
                                     <<Val(nextTemplate)>>)
                          m2 == SetTop(m1, [f EXCEPT !.pc = "awaitNext", !.result = result])
                      IN  Enter(m2, reg, Val(nextTemplate), NextInput(f),
                                NextVisited(f.visitedTemplates, f.templateName))
            ELSE Return(m, result))

\* a loop that rejects a circular chain link before it dispatches the first input
Loop_CheckFirst(m0, reg) ==
    Bind(m0, LAMBDA m :
        LET f == Top(m)
            nextTemplate == f.chatRequest.nextTemplate
        IN  IF /\ f.dispatched = 0
               /\ IsSome(nextTemplate)
               /\ IsCircular(f.visitedTemplates, f.templateName, Val(nextTemplate))
            THEN Throw(m, Circular(Val(nextTemplate)))
            ELSE IF f.dispatched < Len(f.chatRequest.inputs)
            THEN SetTop(Emit(m, "dispatch", f.templateName,
                             f.chatRequest.inputs[f.dispatched + 1], m.tools),
                        [f EXCEPT !.pc = "awaitChat"])
            ELSE AfterLoop(m, reg))

\* for (const input of chatRequest.inputs ?? []) { lastResult = await runChat(...) ... }
\* entered with f.dispatched inputs already answered
Loop(m0, reg) ==
    Bind(m0, LAMBDA m :
        LET f == Top(m) IN
        IF f.dispatched < Len(f.chatRequest.inputs)
        THEN SetTop(Emit(m, "dispatch", f.templateName, f.chatRequest.inputs[f.dispatched + 1], m.tools),
                    [f EXCEPT !.pc = "awaitChat"])
        ELSE AfterLoop(m, reg))

\* a try block that resets the context after the input loop has started
AfterTemplate_ResetLate(m0, reg, fn) ==
    Bind(m0, LAMBDA m :
        IF fn.throws
        THEN Throw(m, TemplateError)
        ELSE LET chatRequest == TemplateChatRequest(fn, Top(m).input)
                 m1 == SetTop(m, [Top(m) EXCEPT !.chatRequest = chatRequest])
             IN  ApplyReset(Loop(NarrowTools(m1, chatRequest), reg), chatRequest))

\* the try block from the settlement of `await template(input)` to the next await
AfterTemplate(m0, reg, fn) ==
    Bind(m0, LAMBDA m :
        IF fn.throws
        THEN Throw(m, TemplateError)
        ELSE LET chatRequest == TemplateChatRequest(fn, Top(m).input)
                 m1 == SetTop(m, [Top(m) EXCEPT !.chatRequest = chatRequest])
             IN  Loop(NarrowTools(ApplyReset(m1, chatRequest), chatRequest), reg))

\* a loop that goes on to the next input whatever the finish reason was
AfterChat_IgnoreFinish(m0, reg, answer) ==
    Bind(m0, LAMBDA m :
        IF ~IsSome(answer)
        THEN Throw(m, ChatError)
        ELSE LET f == Top(m)
                 m1 == Emit(SetTop(m, [f EXCEPT !.lastResult = answer]),
                            "notice", f.templateName, "Input Complete", <<>>)
             IN  Loop(SetTop(m1, [Top(m1) EXCEPT !.dispatched = @ + 1]), reg))

\* the try block from the settlement of `await runChat(...)` to the next await
\* answer is None when runChat rejects
AfterChat(m0, reg, answer) ==
    Bind(m0, LAMBDA m :
        IF ~IsSome(answer)
        THEN Throw(m, ChatError)
        ELSE LET f == Top(m)
                 m1 == Emit(SetTop(m, [f EXCEPT !.lastResult = answer]),
                            "notice", f.templateName, "Input Complete", <<>>)
             IN  IF Val(answer).finishReason # "stop"
                 THEN Throw(m1, ChatDidNotStop(Val(answer).finishReason))
                 ELSE Loop(SetTop(m1, [Top(m1) EXCEPT !.dispatched = @ + 1]), reg))

\* a parent that returns its own result when the chained call failed
AfterNext_Swallow(m0) ==
    Bind(m0, LAMBDA m :
        LET child == Top(m)
            m1 == [m EXCEPT !.st = SubSeq(@, 1, Len(@) - 1)]
        IN  IF child.pc = "returned"
            THEN Return(m1, Top(m1).result \o child.result)
            ELSE Return(m1, Top(m1).result))

\* a parent that returns its own result without the chained one
AfterNext_DropChild(m0) ==
    Bind(m0, LAMBDA m :
        LET child == Top(m)
            m1 == [m EXCEPT !.st = SubSeq(@, 1, Len(@) - 1)]
        IN  IF child.pc = "returned"
            THEN Return(m1, Top(m1).result)
            ELSE Rethrow(m1, Val(child.error)))

\* the try block from the settlement of `await this.runTemplate(...)` on:
\* the settled child frame is dropped and the parent returns or rethrows
AfterNext(m0) ==
    Bind(m0, LAMBDA m :
        LET child == Top(m)
            m1 == [m EXCEPT !.st = SubSeq(@, 1, Len(@) - 1)]
        IN  IF child.pc = "returned"
            THEN Return(m1, Top(m1).result \o child.result)
            ELSE Rethrow(m1, Val(child.error)))

(***************************************************************************)
(* TemplateRegistry.runTemplate, the variant that is given the Agent       *)
(* (src/TemplateRegistry.ts:107-210).  It dispatches the one request of    *)
(* the directive, checks the requested tools against the tools the agent   *)
(* has, and is otherwise written like the service's runTemplate: the entry *)
(* checks, the result, the chaining and the finally block are the same     *)
(* statements, so Enter, AfterLoop and Finally are used for them.          *)
(***************************************************************************)
\* agent.tools.getAllItemNames(): every tool the agent has, enabled or not
AvailableTools == <<"x", "y", "z">>

UnknownTools(invalidTools) == Err("Template requested unknown tools", invalidTools)

\* a narrowing that enables the requested tools before it validates them
AgentNarrowTools_ValidateLate(m0, chatRequest) ==
    Bind(m0, LAMBDA m :
        IF IsSome(chatRequest.activeTools)
        THEN LET captured == SetTop(m, [Top(m) EXCEPT !.originalTools = Some(AvailableTools)])
                 narrowed == SetEnabledTools(captured, Val(chatRequest.activeTools), "narrow")
                 marked == SetTop(narrowed, [Top(narrowed) EXCEPT !.toolsChanged = TRUE])
                 invalidTools == SelectSeq(Val(chatRequest.activeTools),
                                           LAMBDA tool : tool \notin Range(AvailableTools))
             IN  IF invalidTools # <<>>
                 THEN Throw(marked, UnknownTools(invalidTools))
                 ELSE Emit(marked, "notice", Top(m).templateName,
                           "Set active tools for template", Val(chatRequest.activeTools))
        ELSE m)

\* if (chatRequest.activeTools && Array.isArray(...)) { capture; validate; set; notice }
AgentNarrowTools(m0, chatRequest) ==
    Bind(m0, LAMBDA m :
        IF IsSome(chatRequest.activeTools)
        THEN LET captured == SetTop(m, [Top(m) EXCEPT !.originalTools = Some(AvailableTools)])
                 invalidTools == SelectSeq(Val(chatRequest.activeTools),
                                           LAMBDA tool : tool \notin Range(AvailableTools))
             IN  IF invalidTools # <<>>
                 THEN Throw(captured, UnknownTools(invalidTools))
                 ELSE LET narrowed == SetEnabledTools(captured, Val(chatRequest.activeTools), "narrow")
                          marked == SetTop(narrowed, [Top(narrowed) EXCEPT !.toolsChanged = TRUE])
                      IN  Emit(marked, "notice", Top(m).templateName,
                               "Set active tools for template", Val(chatRequest.activeTools))
        ELSE m)

\* the try block from the settlement of `await template(input)` to `await runChat(...)`
AgentAfterTemplate(m0, reg, fn) ==
    Bind(m0, LAMBDA m :
        IF fn.throws
        THEN Throw(m, TemplateError)
        ELSE LET chatRequest == TemplateChatRequest(fn, Top(m).input)
                 m1 == SetTop(m, [Top(m) EXCEPT !.chatRequest = chatRequest])
                 m2 == AgentNarrowTools(ApplyReset(m1, chatRequest), chatRequest)
             IN  IF Top(m2).pc = "threw"
                 THEN m2
                 ELSE SetTop(Emit(m2, "dispatch", Top(m2).templateName, Top(m2).input, m2.tools),
                             [Top(m2) EXCEPT !.pc = "awaitChat"]))

\* the try block from the settlement of `await runChat(...)` on
AgentAfterChat(m0, reg, answer) ==
    Bind(m0, LAMBDA m :
        IF ~IsSome(answer)
        THEN Throw(m, ChatError)
        ELSE AfterLoop(SetTop(m, [Top(m) EXCEPT !.lastResult = answer, !.dispatched = 1]), reg))

(***************************************************************************)
(* TemplateRegistry.runTemplate, the variant that is given the service     *)
(* registry and turns failures into results                                *)
(* (src/TemplateRegistry.ts:308-459).  A result is the list of its nodes,  *)
(* the node of a frame followed by those of nextTemplateResult; a field    *)
(* that the object literal does not set is None.  The awaits of            *)
(* setEnabledTools are taken together with the code around them: one chain *)
(* runs at a time on the tools of its registry.                            *)
(***************************************************************************)
ResultNode(ok, output, error) == [ok |-> ok, output |-> output, error |-> error]

\* a catch block that lets the failure go on to the caller
ResultCaught_Rethrow(m0, err) == Throw(m0, err)

\* catch (error) { errorLine; return {ok: false, error: error.message} }, then the finally block
ResultCaught(m0, err) ==
    Bind(m0, LAMBDA m :
        Return(Emit(m, "notice", Top(m).templateName, "Error running template", <<err.message>>),
               <<ResultNode(Some(FALSE), None, Some(err.message))>>))

\* runTemplate up to its first await: the entry checks return {error}
ResultEnter(m0, reg, templateName, input, visitedTemplates) ==
    Bind(m0, LAMBDA m :
        LET pushed == [m EXCEPT !.st = Append(@, Frame(templateName, input, visitedTemplates))] IN
        IF templateName = ""
        THEN Resolved(Emit(pushed, "notice", templateName, NameRequired.message, <<>>),
                      <<ResultNode(None, None, Some(NameRequired.message))>>)
        ELSE LET m1 == Emit(pushed, "lookup", templateName, "", <<>>) IN
             IF ~IsSome(GetItemByName(reg, templateName))
             THEN Resolved(Emit(m1, "notice", templateName, NotFound(templateName).message, <<>>),
                           <<ResultNode(None, None, Some(NotFound(templateName).message))>>)
             ELSE SetTop(Emit(m1, "invoke", templateName, input, <<>>),
                         [Top(m1) EXCEPT !.pc = "awaitTemplate"]))

\* the try block from the settlement of `await template(input)` to `await runChat(...)`
ResultAfterTemplate(m0, reg, fn) ==
    Bind(m0, LAMBDA m :
        IF fn.throws
        THEN ResultCaught(m, TemplateError)
        ELSE LET chatRequest == TemplateChatRequest(fn, Top(m).input)
                 m1 == SetTop(m, [Top(m) EXCEPT !.chatRequest = chatRequest])
                 m2 == IF IsSome(chatRequest.reset)
                       THEN Emit(Emit(m1, "reset", Top(m).templateName, "", Val(chatRequest.reset)),
                                 "notice", Top(m).templateName, "Reset chat context", <<>>)
                       ELSE m1
             IN  IF ~IsSome(chatRequest.activeTools)
                 THEN SetTop(Emit(m2, "dispatch", Top(m).templateName, Top(m).input, m2.tools),
                             [Top(m2) EXCEPT !.pc = "awaitChat"])
                 ELSE LET captured == SetTop(m2, [Top(m2) EXCEPT !.originalTools = Some(m2.tools)])
                          invalidTools == SelectSeq(Val(chatRequest.activeTools),
                                                    LAMBDA tool : tool \notin Range(AvailableTools))
                      IN  IF invalidTools # <<>>
                          THEN Return(Emit(captured, "notice", Top(m).templateName,
                                           UnknownTools(invalidTools).message, invalidTools),
                                      <<ResultNode(None, None,
                                                   Some(UnknownTools(invalidTools).message))>>)
                          ELSE LET narrowed == SetEnabledTools(captured,
                                                   Val(chatRequest.activeTools), "narrow")
                                   marked == SetTop(narrowed,
                                                 [Top(narrowed) EXCEPT !.toolsChanged = TRUE])
                                   noticed == Emit(marked, "notice", Top(m).templateName,
                                                   "Set active tools for template",
                                                   Val(chatRequest.activeTools))
                               IN  SetTop(Emit(noticed, "dispatch", Top(m).templateName,
                                               Top(m).input, noticed.tools),
                                          [Top(noticed) EXCEPT !.pc = "awaitChat"]))

\* the try block from the settlement of `await runChat(...)` on; a rejection is caught
ResultAfterChat(m0, reg, answer) ==
    Bind(m0, LAMBDA m :
        IF ~IsSome(answer)
        THEN ResultCaught(m, ChatError)
        ELSE LET f == [Top(m) EXCEPT !.lastResult = answer, !.dispatched = 1]
                 m1 == Emit(SetTop(m, f), "notice", f.templateName, "[Template Complete]", <<>>)
                 result == ResultNode(Some(TRUE), Some(Val(answer).text), None)
                 nextTemplate == f.chatRequest.nextTemplate
             IN  IF IsSome(nextTemplate) /\ Val(nextTemplate) # ""
                 THEN IF IsCircular(f.visitedTemplates, f.templateName, Val(nextTemplate))
                      THEN Return(Emit(m1, "notice", f.templateName,
                                       Circular(Val(nextTemplate)).message, <<>>),
                                  <<[result EXCEPT
                                       !.error = Some(Circular(Val(nextTemplate)).message)]>>)
                      ELSE LET m2 == Emit(m1, "notice", f.templateName, "Running next template",
                                          <<Val(nextTemplate)>>)
                               m3 == SetTop(m2, [f EXCEPT !.pc = "awaitNext", !.result = <<result>>])
                           IN  ResultEnter(m3, reg, Val(nextTemplate), Val(answer).text,
                                           NextVisited(f.visitedTemplates, f.templateName))
                 ELSE Return(m1, <<result>>))

(***************************************************************************)
(* Callers of the engine: a direct call, the template_run tool and the     *)
(* /template run command.                                                  *)
(***************************************************************************)
Returned(result, text) == [kind |-> "returned", result |-> result, text |-> text, error |-> None]
Threw(err) == [kind |-> "threw", result |-> <<>>, text |-> "", error |-> Some(err)]

Idle == [active |-> FALSE, via |-> "", templateName |-> "", input |-> "", agent |-> 1,
         toolsBefore |-> <<>>]
InFlight(via, templateName, input, agent, toolsBefore) ==
    [active |-> TRUE, via |-> via, templateName |-> templateName, input |-> input,
     agent |-> agent, toolsBefore |-> toolsBefore]

\* remainder.trim().split(/\s+/) on a string given as its sequence of characters
IsSpace(ch) == ch \in {" ", "\t", "\n"}

RECURSIVE TrimStart(_)
TrimStart(chars) ==
    IF chars # <<>> /\ IsSpace(Head(chars)) THEN TrimStart(Tail(chars)) ELSE chars

RECURSIVE TrimEnd(_)
TrimEnd(chars) ==
    IF chars # <<>> /\ IsSpace(chars[Len(chars)])
    THEN TrimEnd(SubSeq(chars, 1, Len(chars) - 1))
    ELSE chars

Trim(chars) == TrimEnd(TrimStart(chars))

\* split(/\s+/): cur is the token being read, inGap tells a separator run is being skipped
RECURSIVE SplitFrom(_, _, _)
SplitFrom(chars, cur, inGap) ==
    IF chars = <<>> THEN <<cur>>
    ELSE IF IsSpace(Head(chars))
         THEN IF inGap THEN SplitFrom(Tail(chars), cur, TRUE)
              ELSE <<cur>> \o SplitFrom(Tail(chars), "", TRUE)
         ELSE SplitFrom(Tail(chars), cur \o Head(chars), FALSE)

Split(chars) == SplitFrom(chars, "", FALSE)

\* a join that keeps the first token only
Join_First(args) == IF args = <<>> THEN "" ELSE args[1]

\* args.join(" ")
RECURSIVE Join(_)
Join(args) ==
    IF args = <<>> THEN ""
    ELSE IF Len(args) = 1 THEN args[1]
    ELSE args[1] \o " " \o Join(Tail(args))

\* a command that reports success whatever the engine did
AdapterOutcome_Swallow(via, f) ==
    IF via = "command" THEN Returned(<<>>, "Template executed")
    ELSE IF f.pc = "threw" THEN Threw(Val(f.error))
    ELSE Returned(f.result, "")

\* what the caller observes when the outermost frame has settled
AdapterOutcome(via, f) ==
    IF f.pc = "threw" THEN Threw(Val(f.error))
    ELSE IF via = "command" THEN Returned(<<>>, "Template executed")
    ELSE Returned(f.result, "")

(***************************************************************************)
(* Actions                                                                 *)
(***************************************************************************)
Begin(c, a, via, templateName, input, m0) ==
    LET m == Enter(m0, templates, templateName, input, <<>>) IN
    /\ stack' = [stack EXCEPT ![c] = m.st]
    /\ log' = [log EXCEPT ![c] = m.log]
    /\ call' = [call EXCEPT ![c] = InFlight(via, templateName, input, a, enabledTools[a])]
    /\ outcome' = [outcome EXCEPT ![c] = None]
    /\ calls' = calls + 1
    /\ UNCHANGED <<templates, enabledTools, registry, lastOp, everRegistered>>

Refuse(c, a, via, templateName, input, m0, observed) ==
    /\ stack' = [stack EXCEPT ![c] = <<>>]
    /\ log' = [log EXCEPT ![c] = m0.log]
    /\ call' = [call EXCEPT ![c] =
                   [InFlight(via, templateName, input, a, enabledTools[a]) EXCEPT !.active = FALSE]]
    /\ outcome' = [outcome EXCEPT ![c] = Some(observed)]
    /\ calls' = calls + 1
    /\ UNCHANGED <<templates, enabledTools, registry, lastOp, everRegistered>>

\* templateService.runTemplate({templateName, input}, agent)
CallRunTemplate(c, a, templateName, input) ==
    /\ calls < MaxCalls
    /\ ~call[c].active
    /\ Begin(c, a, "direct", templateName, input, Machine(<<>>, enabledTools[a], <<>>))

\* template_run tool: execute({templateName, input}, agent)
ToolExecute(c, a, templateName, input) ==
    /\ calls < MaxCalls
    /\ ~call[c].active
    /\ LET m0 == Emit(Machine(<<>>, enabledTools[a], <<>>),
                      "notice", templateName, "[template_run] Running template", <<>>)
       IN  IF templateName = ""
           THEN Refuse(c, a, "tool", templateName, input, m0, Threw(NameRequired))
           ELSE IF input = ""
           THEN Refuse(c, a, "tool", templateName, input, m0, Threw(InputRequired))
           ELSE Begin(c, a, "tool", templateName, input, m0)

\* /template run: run(remainder, agent)
CommandRun(c, a, remainder) ==
    /\ calls < MaxCalls
    /\ ~call[c].active
    /\ LET args == Split(Trim(remainder))
           m0 == Machine(<<>>, enabledTools[a], <<>>)
       IN  IF Len(args) < 1 \/ args[1] = ""
           THEN Refuse(c, a, "command", "", "", m0,
                       Returned(<<>>, "Please provide a template name."))
           ELSE Begin(c, a, "command", args[1], Join(Tail(args)), m0)

\* an engine that reads the enabled tools of the first agent whatever agent it was given
Running_FirstAgent(c) == Machine(stack[c], enabledTools[1], log[c])

\* the chain in flight with the enabled tools of its agent
Running(c) == Machine(stack[c], enabledTools[call[c].agent], log[c])

\* a step that drops a template from the service once its frame has failed
Apply_Forgetful(c, m) ==
    /\ Len(m.st) <= MaxDepth
    /\ stack' = [stack EXCEPT ![c] = m.st]
    /\ enabledTools' = [enabledTools EXCEPT ![call[c].agent] = m.tools]
    /\ log' = [log EXCEPT ![c] = m.log]
    /\ templates' = IF Top(m).pc = "threw"
                    THEN [n \in DOMAIN templates \ {Top(m).templateName} |-> templates[n]]
                    ELSE templates
    /\ UNCHANGED <<call, outcome, calls, registry, lastOp, everRegistered>>

\* the state after a run-to-await segment of chain c
Apply(c, m) ==
    /\ Len(m.st) <= MaxDepth
    /\ stack' = [stack EXCEPT ![c] = m.st]
    /\ enabledTools' = [enabledTools EXCEPT ![call[c].agent] = m.tools]
    /\ log' = [log EXCEPT ![c] = m.log]
    /\ UNCHANGED <<templates, call, outcome, calls, registry, lastOp, everRegistered>>

\* `await template(input)` settles
TemplateSettles(c) ==
    /\ stack[c] # <<>>
    /\ Top(Running(c)).pc = "awaitTemplate"
    /\ \E m \in {AfterTemplate(Running(c), templates, templates[Top(Running(c)).templateName])} :
          Apply(c, m)

\* `await template(input)` settles for a template function that computes the
\* nextTemplate of its directive from its input: any link may come out
TemplateSettlesWith(c, nextTemplate) ==
    /\ stack[c] # <<>>
    /\ Top(Running(c)).pc = "awaitTemplate"
    /\ \E m \in {AfterTemplate(Running(c), templates,
                               [templates[Top(Running(c)).templateName]
                                   EXCEPT !.nextTemplate = nextTemplate])} :
          Apply(c, m)

\* `await runChat(input, chatConfig, agent)` settles
ChatSettles(c, answer) ==
    /\ stack[c] # <<>>
    /\ Top(Running(c)).pc = "awaitChat"
    /\ \E m \in {AfterChat(Running(c), templates, answer)} : Apply(c, m)

\* `await this.runTemplate(...)` settles in the parent frame
NextSettles(c) ==
    /\ Len(stack[c]) >= 2
    /\ Top(Running(c)).pc \in {"returned", "threw"}
    /\ \E m \in {AfterNext(Running(c))} : Apply(c, m)

\* the promise of the top-level call settles in its caller
CallSettles(c) ==
    /\ Len(stack[c]) = 1
    /\ stack[c][1].pc \in {"returned", "threw"}
    /\ outcome' = [outcome EXCEPT ![c] = Some(AdapterOutcome(call[c].via, stack[c][1]))]
    /\ stack' = [stack EXCEPT ![c] = <<>>]
    /\ call' = [call EXCEPT ![c] = [call[c] EXCEPT !.active = FALSE]]
    /\ UNCHANGED <<templates, enabledTools, log, calls, registry, lastOp, everRegistered>>

(***************************************************************************)
(* TemplateRegistry: a Map from names to template functions.  A Map keeps  *)
(* its entries in insertion order; values are told apart by typeof and an  *)
(* identity.                                                               *)
(***************************************************************************)
Fn(k) == [typeof |-> "function", id |-> k]
Callables == {Fn(1), Fn(2)}
NotAFunction == [typeof |-> "string", id |-> 0]
Values == Callables \cup {NotAFunction}

Entry(name, template) == [name |-> name, template |-> template]

\* Map.prototype.has / get / keys
MapHas(map, name) == \E i \in 1..Len(map) : map[i].name = name
MapGet(map, name) ==
    IF MapHas(map, name)
    THEN Some(map[CHOOSE i \in 1..Len(map) : map[i].name = name].template)
    ELSE None
MapKeys(map) == [i \in 1..Len(map) |-> map[i].name]

\* a set that always adds a new entry
MapSet_Append(map, name, template) == Append(map, Entry(name, template))

\* a set that moves an existing key to the end
MapSet_MoveToEnd(map, name, template) ==
    Append(SelectSeq(map, LAMBDA e : e.name # name), Entry(name, template))

\* Map.prototype.set: an existing key keeps its place and gets the new value
MapSet(map, name, template) ==
    IF MapHas(map, name)
    THEN [i \in 1..Len(map) |-> IF map[i].name = name THEN Entry(name, template) ELSE map[i]]
    ELSE Append(map, Entry(name, template))

\* a delete that empties the map
MapDelete_Clear(map, name) == <<>>

\* Map.prototype.delete
MapDelete(map, name) == SelectSeq(map, LAMBDA e : e.name # name)

MustBeFunction(template) == Err("Template must be a function", template.typeof)

\* a register that stores whatever it is given
RegisterResult_Unchecked(map, name, template) ==
    [map |-> MapSet(map, name, template), error |-> None]

\* register(name, template): the map afterwards and the error thrown, if any
RegisterResult(map, name, template) ==
    IF template.typeof # "function"
    THEN [map |-> map, error |-> Some(MustBeFunction(template))]
    ELSE [map |-> MapSet(map, name, template), error |-> None]

\* an unregister that always reports a removal
UnregisterResult_AlwaysTrue(map, name) ==
    [map |-> MapDelete(map, name), result |-> TRUE]

\* unregister(name): the map afterwards and the boolean Map.delete returns
UnregisterResult(map, name) ==
    [map |-> MapDelete(map, name), result |-> MapHas(map, name)]

\* a loop that stops at the first entry it cannot register
RECURSIVE LoadEntries_Abort(_, _, _)
LoadEntries_Abort(map, entries, reported) ==
    IF entries = <<>> THEN [map |-> map, reported |-> reported, error |-> None]
    ELSE LET r == RegisterResult(map, Head(entries).name, Head(entries).template) IN
         IF IsSome(r.error)
         THEN [map |-> map, reported |-> reported, error |-> r.error]
         ELSE LoadEntries_Abort(r.map, Tail(entries), reported)

\* for (const [name, template] of Object.entries(templates)) { try register catch report }
RECURSIVE LoadEntries(_, _, _)
LoadEntries(map, entries, reported) ==
    IF entries = <<>> THEN [map |-> map, reported |-> reported, error |-> None]
    ELSE LET r == RegisterResult(map, Head(entries).name, Head(entries).template) IN
         IF IsSome(r.error)
         THEN LoadEntries(map, Tail(entries), Append(reported, Head(entries).name))
         ELSE LoadEntries(r.map, Tail(entries), reported)

\* argument of loadTemplates: null, undefined, a string, or an object with its own entries
LoadArg(kind, entries) == [kind |-> kind, entries |-> entries]

\* loadTemplates(templates)
LoadTemplatesResult(map, arg) ==
    IF arg.kind \in {"null", "undefined"} \/ arg.kind # "object"
    THEN [map |-> map, reported |-> <<>>, error |-> None]
    ELSE LoadEntries(map, arg.entries, <<>>)

Operation(op, name, template, arg, before, result, error, reported) ==
    [op |-> op, name |-> name, template |-> template, arg |-> arg, before |-> before,
     result |-> result, error |-> error, reported |-> reported]
NoArg == LoadArg("undefined", <<>>)
NoOp == Operation("none", "", NotAFunction, NoArg, <<>>, None, None, <<>>)

\* the first-registration order after the names given were registered in that order
Noted(seen, names) == seen \o SelectSeq(names, LAMBDA n : n \notin Range(seen))

EngineIdle == UNCHANGED <<templates, enabledTools, stack, call, outcome, log, calls>>

Register(name, template) ==
    LET r == RegisterResult(registry, name, template) IN
    /\ Len(r.map) <= MaxRegistry
    /\ registry' = r.map
    /\ lastOp' = Operation("register", name, template, NoArg, registry, None, r.error, <<>>)
    /\ everRegistered' = IF IsSome(r.error) THEN everRegistered ELSE Noted(everRegistered, <<name>>)
    /\ EngineIdle

Unregister(name) ==
    LET r == UnregisterResult(registry, name) IN
    /\ registry' = r.map
    /\ lastOp' = Operation("unregister", name, NotAFunction, NoArg, registry,
                           Some(r.result), None, <<>>)
    /\ UNCHANGED everRegistered
    /\ EngineIdle

\* a lookup that drops the entry it has read
Get_Evicting(name) ==
    /\ registry' = MapDelete(registry, name)
    /\ lastOp' = Operation("get", name, NotAFunction, NoArg, registry,
                           MapGet(registry, name), None, <<>>)
    /\ UNCHANGED everRegistered
    /\ EngineIdle

Get(name) ==
    /\ registry' = registry
    /\ lastOp' = Operation("get", name, NotAFunction, NoArg, registry,
                           MapGet(registry, name), None, <<>>)
    /\ UNCHANGED everRegistered
    /\ EngineIdle

List ==
    /\ registry' = registry
    /\ lastOp' = Operation("list", "", NotAFunction, NoArg, registry,
                           Some(MapKeys(registry)), None, <<>>)
    /\ UNCHANGED everRegistered
    /\ EngineIdle

LoadTemplates(arg) ==
    LET r == LoadTemplatesResult(registry, arg) IN
    /\ Len(r.map) <= MaxRegistry
    /\ registry' = r.map
    /\ lastOp' = Operation("load", "", NotAFunction, arg, registry, None, r.error, r.reported)
    /\ everRegistered' =
          Noted(everRegistered,
                SelectSeq(MapKeys(arg.entries), LAMBDA n : n \in Range(MapKeys(r.map))
                                                          /\ n \notin Range(r.reported)))
    /\ EngineIdle

\* `await template(input)` settles in the Agent variant of the registry
AgentTemplateSettles(c) ==
    /\ stack[c] # <<>>
    /\ Top(Running(c)).pc = "awaitTemplate"
    /\ \E m \in {AgentAfterTemplate(Running(c), templates, templates[Top(Running(c)).templateName])} :
          Apply(c, m)

\* `await runChat(chatRequest.request, agent)` settles in the Agent variant
AgentChatSettles(c, answer) ==
    /\ stack[c] # <<>>
    /\ Top(Running(c)).pc = "awaitChat"
    /\ \E m \in {AgentAfterChat(Running(c), templates, answer)} : Apply(c, m)

\* templateRegistry.runTemplate({templateName, input}, registry), result-returning variant
CallResultRunTemplate(c, a, templateName, input) ==
    /\ calls < MaxCalls
    /\ ~call[c].active
    /\ LET m == ResultEnter(Machine(<<>>, enabledTools[a], <<>>), templates, templateName,
                            input, <<>>) IN
       /\ stack' = [stack EXCEPT ![c] = m.st]
       /\ log' = [log EXCEPT ![c] = m.log]
       /\ call' = [call EXCEPT ![c] = InFlight("direct", templateName, input, a, enabledTools[a])]
       /\ outcome' = [outcome EXCEPT ![c] = None]
       /\ calls' = calls + 1
       /\ UNCHANGED <<templates, enabledTools, registry, lastOp, everRegistered>>

\* `await template(input)` settles in the result-returning variant
ResultTemplateSettles(c) ==
    /\ stack[c] # <<>>
    /\ Top(Running(c)).pc = "awaitTemplate"
    /\ \E m \in {ResultAfterTemplate(Running(c), templates, templates[Top(Running(c)).templateName])} :
          Apply(c, m)

\* `await runChat(chatRequest.request, registry)` settles in the result-returning variant
ResultChatSettles(c, answer) ==
    /\ stack[c] # <<>>
    /\ Top(Running(c)).pc = "awaitChat"
    /\ \E m \in {ResultAfterChat(Running(c), templates, answer)} : Apply(c, m)

(***************************************************************************)
(* Initial states and specification                                        *)
(***************************************************************************)
Options(S) == {None} \cup {Some(v) : v \in S}

\* a template function that rejects
Failing == TemplateFunction(TRUE, 0, None, None, None)

\* template functions of the engine runs: every inputs length, chain link and
\* tool narrowing
EngineFns ==
    {Failing}
    \cup {TemplateFunction(FALSE, n, nx, None, t) :
            n \in 0..MaxInputs, nx \in Options(Names), t \in Options(ActiveToolLists)}

\* template functions of the adapter runs: one input, every chain link, reset
\* and one tool narrowing
AdapterFns ==
    {Failing}
    \cup {TemplateFunction(FALSE, 1, nx, r, t) :
            nx \in Options(Names), r \in Options({<<"chat">>}),
            t \in Options({<<"y", "z">>})}

\* new TemplateService(templates): registerAll of a name -> function mapping
Registries(fns) == UNION {[S -> fns] : S \in SUBSET Registrable}

\* remainders typed after "/template run", as character sequences
Remainders ==
    {<<>>, <<" ">>, <<"A">>, <<"B", " ", "h", "i">>, <<"C", " ", "h", "i">>,
     <<" ", "A", " ", " ", "h", " ", "i", " ">>,
     <<"B", "\t", "h", " ", "\t", "i", "\n">>}

InitWith(registries, toolLists) ==
    /\ templates \in registries
    /\ enabledTools \in {[a \in Agents |-> IF a = 1 THEN t ELSE <<>>] : t \in toolLists}
    /\ stack = [c \in Chains |-> <<>>]
    /\ call = [c \in Chains |-> Idle]
    /\ outcome = [c \in Chains |-> None]
    /\ log = [c \in Chains |-> <<>>]
    /\ calls = 0
    /\ registry = <<>>
    /\ lastOp = NoOp
    /\ everRegistered = <<>>

\* template functions of the chain runs: every chain link over all names
ChainFns ==
    {Failing} \cup {TemplateFunction(FALSE, 1, nx, None, None) : nx \in Options(Names)}

Init == InitWith(Registries(EngineFns), ToolLists)
InitAdapters == InitWith(Registries(AdapterFns), {<<"x">>})
InitChains == InitWith(UNION {[S -> ChainFns] : S \in SUBSET Names}, {<<"x">>})

\* template functions of the reset runs: every inputs length and chain link,
\* reset absent, empty and non-empty, one tool narrowing
ResetFns ==
    {Failing}
    \cup {TemplateFunction(FALSE, n, nx, r, t) :
            n \in 0..MaxInputs, nx \in Options(Names),
            r \in Options({<<>>, <<"chat">>}), t \in Options({<<"y", "z">>})}

InitReset == InitWith(Registries(ResetFns), {<<"x">>})

\* template functions of the concurrent runs: no chain link, every inputs
\* length from one on, always a tool narrowing
NarrowingFns ==
    {TemplateFunction(FALSE, n, None, None, Some(t)) :
        n \in 1..MaxInputs, t \in ActiveToolLists}

\* list enabled on the first agent before any call, and the lists the second agent starts with
InitialTools == <<"x">>
OtherToolLists == {<<>>, <<"w">>}

InitAgents(otherToolLists) ==
    /\ templates \in [Registrable -> NarrowingFns]
    /\ enabledTools \in {[a \in Agents |-> IF a = 1 THEN InitialTools ELSE t] : t \in otherToolLists}
    /\ stack = [c \in Chains |-> <<>>]
    /\ call = [c \in Chains |-> Idle]
    /\ outcome = [c \in Chains |-> None]
    /\ log = [c \in Chains |-> <<>>]
    /\ calls = 0
    /\ registry = <<>>
    /\ lastOp = NoOp
    /\ everRegistered = <<>>

InitConcurrent == InitAgents(OtherToolLists)
InitShared == InitAgents({<<>>})

\* objects given to loadTemplates: up to MaxLoad entries with distinct keys
LoadValues == {Fn(2), NotAFunction}
EntryLists ==
    {es \in UNION {[1..k -> {Entry(n, v) : n \in Registrable, v \in LoadValues}] :
                      k \in 0..MaxLoad} :
        \A i, j \in 1..Len(es) : es[i].name = es[j].name => i = j}
LoadArgs ==
    {LoadArg(kind, <<>>) : kind \in {"null", "undefined", "string"}}
    \cup {LoadArg("object", es) : es \in EntryLists}

\* new TemplateRegistry(): an empty map
InitRegistry == InitWith({<<>>}, {<<>>})

\* template functions of the registry runs: one request, every chain link,
\* reset, and tool lists the agent has and has not
RegistryFns ==
    {Failing}
    \cup {TemplateFunction(FALSE, 1, nx, r, t) :
            nx \in Options(Names), r \in Options({<<"chat">>}),
            t \in Options({<<"y", "z">>, <<"y", "q">>})}

\* lists enabled on the agent before a registry run
EnabledLists == {<<>>, <<"x">>, <<"x", "y", "z">>}

InitAgent == InitWith(Registries(RegistryFns), EnabledLists)

\* template functions of the plain concurrent runs: no chain link, no reset,
\* no activeTools, every inputs length from one on
PlainFns == {TemplateFunction(FALSE, n, None, None, None) : n \in 1..MaxInputs}

InitPlain == InitWith([Registrable -> PlainFns], ToolLists)

\* template functions whose chain link is decided when they are invoked
LinkingFns == {TemplateFunction(FALSE, 1, None, None, None)}

InitLinks == InitWith(UNION {[S -> LinkingFns] : S \in SUBSET Names}, {<<"x">>})

\* the steps of the chain in flight
Step(c) ==
    \/ TemplateSettles(c)
    \/ \E fr \in FinishReasons :
          ChatSettles(c, Some(AIResponse(Count(log[c], "dispatch"), fr)))
    \/ ChatSettles(c, None)
    \/ NextSettles(c)
    \/ CallSettles(c)

\* direct calls of the engine, one chain at a time on one agent
Next ==
    \/ \E templateName \in Names \cup {""} : CallRunTemplate(1, 1, templateName, "hi")
    \/ Step(1)

\* calls through the tool and the command as well
NextAdapters ==
    \/ \E templateName \in Names \cup {""}, input \in CallerTexts :
          CallRunTemplate(1, 1, templateName, input)
    \/ \E templateName \in Names \cup {""}, input \in CallerTexts :
          ToolExecute(1, 1, templateName, input)
    \/ \E remainder \in Remainders : CommandRun(1, 1, remainder)
    \/ Step(1)

\* the steps of a call whose templates carry no chain link: no chained call
\* is made, so none settles
FrameStep(c) ==
    \/ TemplateSettles(c)
    \/ \E fr \in FinishReasons :
          ChatSettles(c, Some(AIResponse(Count(log[c], "dispatch"), fr)))
    \/ ChatSettles(c, None)
    \/ CallSettles(c)

\* two chains, each on an agent of its own
NextConcurrent ==
    \/ \E c \in Chains, templateName \in Registrable : CallRunTemplate(c, c, templateName, "hi")
    \/ \E c \in Chains : FrameStep(c)

\* two chains on the same agent
NextShared ==
    \/ \E c \in Chains, templateName \in Registrable : CallRunTemplate(c, 1, templateName, "hi")
    \/ \E c \in Chains : FrameStep(c)

\* the operations of a TemplateRegistry
NextRegistry ==
    \/ \E name \in Names, template \in Values : Register(name, template)
    \/ \E name \in Names : Unregister(name)
    \/ \E name \in Names : Get(name)
    \/ List
    \/ \E arg \in LoadArgs : LoadTemplates(arg)

\* calls of the Agent variant of TemplateRegistry.runTemplate
NextAgent ==
    \/ \E templateName \in Names \cup {""} : CallRunTemplate(1, 1, templateName, "hi")
    \/ AgentTemplateSettles(1)
    \/ AgentChatSettles(1, Some(AIResponse(Count(log[1], "dispatch"), "stop")))
    \/ AgentChatSettles(1, None)
    \/ NextSettles(1)
    \/ CallSettles(1)

\* calls of the result-returning variant of TemplateRegistry.runTemplate
NextResults ==
    \/ \E templateName \in Names \cup {""} : CallResultRunTemplate(1, 1, templateName, "hi")
    \/ ResultTemplateSettles(1)
    \/ ResultChatSettles(1, Some(AIResponse(Count(log[1], "dispatch"), "stop")))
    \/ ResultChatSettles(1, None)
    \/ NextSettles(1)
    \/ CallSettles(1)

\* two chains on the same agent, each with an input of its own
NextPlain ==
    \/ \E c \in Chains, templateName \in Registrable :
          CallRunTemplate(c, 1, templateName, IF c = 1 THEN "hi" ELSE "ho")
    \/ \E c \in Chains : FrameStep(c)

\* one chain whose templates pick their chain link at each invocation
NextLinks ==
    \/ \E templateName \in Names : calls = 0 /\ CallRunTemplate(1, 1, templateName, "hi")
    \/ \E nextTemplate \in Options(Names) : TemplateSettlesWith(1, nextTemplate)
    \/ ChatSettles(1, Some(AIResponse(Count(log[1], "dispatch"), "stop")))
    \/ ChatSettles(1, None)
    \/ NextSettles(1)
    \/ CallSettles(1)

Spec == Init /\ [][Next]_vars
SpecAdapters == InitAdapters /\ [][NextAdapters]_vars
SpecReset == InitReset /\ [][Next]_vars
SpecConcurrent == InitConcurrent /\ [][NextConcurrent]_vars
SpecShared == InitShared /\ [][NextShared]_vars
SpecRegistry == InitRegistry /\ [][NextRegistry]_vars
SpecAgent == InitAgent /\ [][NextAgent]_vars
SpecResults == InitAgent /\ [][NextResults]_vars
\* the awaits of either chain eventually settle
SpecPlain == InitPlain /\ [][NextPlain]_vars /\ \A c \in Chains : WF_vars(FrameStep(c))
SpecLinks == InitLinks /\ [][NextLinks]_vars
\* every await of the chain in flight eventually settles
SpecChains == InitChains /\ [][Next]_vars /\ WF_vars(Step(1))

(***************************************************************************)
(* Observations on a chain                                                 *)
(***************************************************************************)
Completed(c) == ~call[c].active /\ IsSome(outcome[c])
Observed(c) == Val(outcome[c])
Ops(c, op) == SelectSeq(log[c], LAMBDA e : e.op = op)
Has(c, op) == Ops(c, op) # <<>>
Called(c) == templates[call[c].templateName]
CalledRegistered(c) == call[c].templateName \in DOMAIN templates
Max(S) == CHOOSE x \in S : \A y \in S : y <= x

(***************************************************************************)
(* C1: when a top-level call of a template whose directive has activeTools *)
(* returns successfully, the enabled tool list of the agent is the list    *)
(* that was enabled before the narrowing.                                  *)
(***************************************************************************)
C1_RestoredOnSuccess ==
    (/\ Completed(1)
     /\ Observed(1).kind = "returned"
     /\ CalledRegistered(1)
     /\ IsSome(Called(1).activeTools))
    => enabledTools[call[1].agent] = call[1].toolsBefore

C1_Witness ==
    /\ Completed(1)
    /\ Observed(1).kind = "returned"
    /\ CalledRegistered(1)
    /\ Called(1).activeTools = Some(<<"y", "z">>)
    /\ call[1].toolsBefore = <<"x">>
    /\ \E i \in 1..Len(log[1]) :
          log[1][i].op = "setTools" /\ log[1][i].text = "narrow" /\ log[1][i].list = <<"y", "z">>
    /\ enabledTools[1] = <<"x">>

(***************************************************************************)
(* C2: when a frame that narrowed the tools fails on its chat dispatch,    *)
(* the enabled tool list is back to the frame's captured original by the   *)
(* time the frame's promise is rejected, and the caller of the top-level   *)
(* call observes that very failure.                                        *)
(***************************************************************************)
C2_RestoredBeforeFailure ==
    /\ stack[1] # <<>> =>
          LET f == stack[1][Len(stack[1])] IN
          (f.pc = "threw" /\ f.toolsChanged /\ Val(f.error) = ChatError)
          => enabledTools[call[1].agent] = Val(f.originalTools)
    /\ (/\ Completed(1)
        /\ \E i \in 1..Len(log[1]) :
              log[1][i].op = "throw" /\ log[1][i].text = ChatError.message)
       => Observed(1) = Threw(ChatError)

C2_Witness ==
    /\ Completed(1)
    /\ Observed(1) = Threw(ChatError)
    /\ call[1].toolsBefore = <<"x">>
    /\ \E i, j, k \in 1..Len(log[1]) :
          /\ i < j /\ j < k
          /\ log[1][i].op = "setTools" /\ log[1][i].text = "narrow"
          /\ log[1][i].depth = 1 /\ log[1][i].list = <<"y", "z">>
          /\ log[1][j].op = "throw" /\ log[1][j].depth = 1
          /\ log[1][k].op = "setTools" /\ log[1][k].text = "restore"
    /\ enabledTools[1] = <<"x">>

(***************************************************************************)
(* C3: in one chain the tool-list writes are strictly nested.  Every       *)
(* narrowing frame holds as its original the list enabled just before its  *)
(* own narrowing (the activeTools of the nearest narrowing ancestor, or the *)
(* list enabled before the call), every restoration writes the snapshot of *)
(* the innermost open narrowing, and when the call has ended - returned or *)
(* failed - every narrowing is closed and the list enabled before the call *)
(* is enabled again.                                                       *)
(***************************************************************************)
RECURSIVE Nested(_, _, _, _, _)
Nested(writes, i, open, current, mustClose) ==
    IF i > Len(writes) THEN (mustClose => open = <<>>)
    ELSE LET w == writes[i] IN
         IF w.text = "narrow"
         THEN /\ open # <<>> => open[Len(open)][1] < w.depth
              /\ Nested(writes, i + 1, Append(open, <<w.depth, current>>), w.list, mustClose)
         ELSE /\ open # <<>>
              /\ open[Len(open)][1] = w.depth
              /\ open[Len(open)][2] = w.list
              /\ Nested(writes, i + 1, SubSeq(open, 1, Len(open) - 1), w.list, mustClose)

C3_NestedSnapshots ==
    /\ Nested(Ops(1, "setTools"), 1, <<>>, call[1].toolsBefore, Completed(1))
    /\ \A d \in 1..Len(stack[1]) :
          stack[1][d].toolsChanged =>
             LET narrowing == {a \in 1..(d - 1) : stack[1][a].toolsChanged} IN
             Val(stack[1][d].originalTools) =
                IF narrowing = {} THEN call[1].toolsBefore
                ELSE Val(stack[1][Max(narrowing)].chatRequest.activeTools)
    /\ Completed(1) => enabledTools[call[1].agent] = call[1].toolsBefore

C3_Witness ==
    /\ Completed(1)
    /\ Observed(1).kind = "threw"
    /\ call[1].toolsBefore = <<"x">>
    /\ enabledTools[1] = <<"x">>
    /\ LET writes == Ops(1, "setTools") IN
       /\ Len(writes) = 4
       /\ writes[1].text = "narrow" /\ writes[1].depth = 1 /\ writes[1].list = <<"y", "z">>
       /\ writes[2].text = "narrow" /\ writes[2].depth = 2 /\ writes[2].list = <<>>
       /\ writes[3].text = "restore" /\ writes[3].depth = 2 /\ writes[3].list = <<"y", "z">>
       /\ writes[4].text = "restore" /\ writes[4].depth = 1 /\ writes[4].list = <<"x">>
    /\ \E i \in 1..Len(log[1]) : log[1][i].op = "throw" /\ log[1][i].depth = 3

\* messages of the failures the chat collaborator causes
ChatFailures == {ChatError.message, ChatDidNotStop("length").message}
Works(name) == name \in DOMAIN templates /\ ~templates[name].throws
NamesOf(events) == [i \in 1..Len(events) |-> events[i].name]

(***************************************************************************)
(* C4: a call of a registered template X whose directive always chains to  *)
(* X never holds more than two frames and never invokes X more than twice; *)
(* it ends with a failure, and unless a chat dispatch failed first that    *)
(* failure is the circular-reference error for X, raised by the frame of   *)
(* the second entry into X.                                                *)
(***************************************************************************)
SelfLinked(name) == Works(name) /\ templates[name].nextTemplate = Some(name)

C4_SelfReferenceRejected ==
    (CalledRegistered(1) /\ SelfLinked(call[1].templateName)) =>
       /\ Len(stack[1]) <= 2
       /\ Len(Ops(1, "invoke")) <= 2
       /\ Completed(1) =>
             LET throws == Ops(1, "throw") IN
             /\ Observed(1).kind = "threw"
             /\ Len(throws) = 1
             /\ throws[1].text \notin ChatFailures =>
                   /\ Observed(1) = Threw(Circular(call[1].templateName))
                   /\ throws[1].depth = 2
                   /\ NamesOf(Ops(1, "invoke")) = <<call[1].templateName, call[1].templateName>>

C4_Witness ==
    /\ Completed(1)
    /\ call[1].templateName = "A"
    /\ SelfLinked("A")
    /\ templates["A"].nInputs = 1
    /\ Observed(1) = Threw(Circular("A"))
    /\ Len(Ops(1, "dispatch")) = 2

(***************************************************************************)
(* C5: within one top-level call no template name has its template         *)
(* function invoked more than once.                                        *)
(***************************************************************************)
C5_NoNameInvokedTwice ==
    LET invoked == Ops(1, "invoke") IN
    \A i, j \in 1..Len(invoked) : i < j => invoked[i].name # invoked[j].name

(***************************************************************************)
(* C6: with A chaining to B and B chaining to A, a call of A invokes A     *)
(* once and B once and, unless a chat dispatch failed first, ends with the *)
(* circular-reference error for A raised in B's frame.  The visited list   *)
(* is not kept: a new top-level call of A made after that failure starts   *)
(* with an empty visited list and invokes A's function again.              *)
(***************************************************************************)
Mutual(a, b) ==
    /\ a # b /\ Works(a) /\ Works(b)
    /\ templates[a].nextTemplate = Some(b)
    /\ templates[b].nextTemplate = Some(a)

C6_RejectedInSecondFrame ==
    \A b \in Names :
       (CalledRegistered(1) /\ Mutual(call[1].templateName, b)) =>
          LET a == call[1].templateName
              invoked == Ops(1, "invoke")
              throws == Ops(1, "throw")
          IN  /\ Len(stack[1]) <= 2
              /\ \A i, j \in 1..Len(invoked) : invoked[i].name = invoked[j].name => i = j
              /\ (Completed(1) /\ Len(throws) = 1 /\ throws[1].text \notin ChatFailures) =>
                    /\ Observed(1) = Threw(Circular(a))
                    /\ throws[1].depth = 2 /\ throws[1].name = b
                    /\ NamesOf(invoked) = <<a, b>>

C6_FreshCallStartsEmpty ==
    \A b \in Names :
       (/\ Completed(1)
        /\ CalledRegistered(1)
        /\ Mutual(call[1].templateName, b)
        /\ Observed(1) = Threw(Circular(call[1].templateName))
        /\ call'[1].active
        /\ call'[1].templateName = call[1].templateName)
       => /\ Len(stack'[1]) = 1
          /\ stack'[1][1].visitedTemplates = <<>>
          /\ stack'[1][1].pc = "awaitTemplate"
          /\ NamesOf(SelectSeq(log'[1], LAMBDA e : e.op = "invoke")) = <<call[1].templateName>>

C6_MutualReference == [] C6_RejectedInSecondFrame /\ [][C6_FreshCallStartsEmpty]_vars

C6_Witness ==
    /\ calls = 2
    /\ Completed(1)
    /\ call[1].templateName = "A"
    /\ Mutual("A", "B")
    /\ Observed(1) = Threw(Circular("A"))
    /\ NamesOf(Ops(1, "invoke")) = <<"A", "B">>

(***************************************************************************)
(* C7: whatever the chain links between the registered templates, a        *)
(* top-level call in flight eventually returns or throws when every await  *)
(* of the chain settles; the chain never grows to the depth cap.           *)
(***************************************************************************)
C7_Terminates ==
    /\ [](Len(stack[1]) < MaxDepth)
    /\ (call[1].active ~> Completed(1))

C7_Witness ==
    /\ Completed(1)
    /\ call[1].templateName = "A"
    /\ templates = [n \in Names |->
                      TemplateFunction(FALSE, 1,
                          Some(IF n = "A" THEN "B" ELSE IF n = "B" THEN "C" ELSE "A"),
                          None, None)]
    /\ Observed(1) = Threw(Circular("A"))
    /\ NamesOf(Ops(1, "invoke")) = <<"A", "B", "C">>

(***************************************************************************)
(* C8: when A chains to B, B chains to nothing and A dispatches at least   *)
(* one input, B's template function is invoked with the text of A's last   *)
(* chat response, which is not the input A was called with, and a call     *)
(* that meets no failure returns ok=true with nextTemplateResult.ok=true.  *)
(***************************************************************************)
ChainsOnce(a, b) ==
    /\ Works(a) /\ Works(b)
    /\ templates[a].nextTemplate = Some(b)
    /\ templates[a].nInputs >= 1
    /\ templates[b].nextTemplate = None

C8_ChainedInputIsOutput ==
    \A b \in Names :
       (CalledRegistered(1) /\ ChainsOnce(call[1].templateName, b)) =>
          LET a == call[1].templateName
              invoked == Ops(1, "invoke")
          IN  /\ \A i \in 1..Len(invoked) :
                    invoked[i].depth = 2 =>
                       /\ invoked[i].name = b
                       /\ invoked[i].text = ChatText(templates[a].nInputs)
                       /\ invoked[i].text # call[1].input
              /\ (Completed(1) /\ ~Has(1, "throw")) =>
                    /\ Observed(1).kind = "returned"
                    /\ Len(Observed(1).result) = 2
                    /\ Observed(1).result[1].ok
                    /\ Observed(1).result[2].ok
                    /\ Observed(1).result[1].output = ChatText(templates[a].nInputs)
                    /\ NamesOf(invoked) = <<a, b>>

C8_Witness ==
    /\ Completed(1)
    /\ call[1].templateName = "A"
    /\ ChainsOnce("A", "B")
    /\ templates["A"].nInputs = 2
    /\ Observed(1).kind = "returned"
    /\ Len(Observed(1).result) = 2
    /\ Ops(1, "invoke")[2].text = "out2"

(***************************************************************************)
(* C9: a runTemplate call with a name that is not registered fails with    *)
(* the template-not-found error for that name, whether it was made         *)
(* directly, by the template_run tool or by /template run, and has no side *)
(* effect: no template function invoked, no chat dispatched, no reset, no  *)
(* write of the enabled tool list.                                         *)
(***************************************************************************)
NoSideEffect(c) ==
    /\ ~Has(c, "invoke") /\ ~Has(c, "dispatch") /\ ~Has(c, "reset") /\ ~Has(c, "setTools")
    /\ enabledTools[call[c].agent] = call[c].toolsBefore

C9_NotFoundNoSideEffect ==
    (call[1].templateName # "" /\ ~CalledRegistered(1) /\ Has(1, "lookup")) =>
       /\ NoSideEffect(1)
       /\ Completed(1) => Observed(1) = Threw(NotFound(call[1].templateName))

C9_Witness ==
    /\ Completed(1)
    /\ call[1].via = "command"
    /\ call[1].templateName = "C"
    /\ call[1].input = "hi"
    /\ Has(1, "lookup")
    /\ Observed(1) = Threw(NotFound("C"))

(***************************************************************************)
(* C10: a runTemplate call with an empty templateName fails with the       *)
(* missing-name error without consulting the registry, and performs no     *)
(* template invocation, chat dispatch, reset or tool change.               *)
(***************************************************************************)
C10_MissingNameFirst ==
    (calls > 0 /\ call[1].via = "direct" /\ call[1].templateName = "") =>
       /\ ~Has(1, "lookup")
       /\ NoSideEffect(1)
       /\ Completed(1) => Observed(1) = Threw(NameRequired)

C10_Witness ==
    /\ Completed(1)
    /\ call[1].via = "direct"
    /\ call[1].templateName = ""
    /\ Observed(1) = Threw(NameRequired)
    /\ Len(log[1]) = 1 /\ log[1][1].op = "throw"

(***************************************************************************)
(* C11: when the template function of a frame rejects, the top-level call  *)
(* fails with that very error, and the frame issues no reset, writes no    *)
(* tool list and dispatches no chat.                                       *)
(***************************************************************************)
AtDepth(c, d) == SelectSeq(log[c], LAMBDA e : e.depth = d)

C11_TemplateFailurePropagates ==
    \A i \in 1..Len(log[1]) :
       (log[1][i].op = "throw" /\ log[1][i].text = TemplateError.message) =>
          /\ \A j \in 1..Len(log[1]) :
                log[1][j].depth = log[1][i].depth =>
                   log[1][j].op \in {"lookup", "invoke", "throw"}
          /\ Completed(1) => Observed(1) = Threw(TemplateError)

C11_Witness ==
    /\ Completed(1)
    /\ Observed(1) = Threw(TemplateError)
    /\ call[1].templateName = "A"
    /\ templates["A"].reset = Some(<<"chat">>)
    /\ templates["A"].activeTools = Some(<<"y", "z">>)
    /\ templates["A"].nextTemplate = Some("B")
    /\ "B" \in DOMAIN templates /\ templates["B"].throws
    /\ NamesOf(AtDepth(1, 2)) = <<"B", "B", "B">>
    /\ Has(1, "reset") /\ Has(1, "dispatch")
    /\ enabledTools[1] = <<"x">>

(***************************************************************************)
(* C12: in a frame whose directive carries reset, the reset call and its   *)
(* notice come before the frame's first chat dispatch, and no reset of the *)
(* frame comes after a dispatch of the frame.                              *)
(***************************************************************************)
C12_ResetBeforeChat ==
    \A j \in 1..Len(log[1]) :
       /\ (log[1][j].op = "dispatch" /\ IsSome(templates[log[1][j].name].reset)) =>
             \E i \in 2..(j - 1) :
                /\ log[1][i].op = "reset" /\ log[1][i].depth = log[1][j].depth
                /\ log[1][i - 1].op = "notice" /\ log[1][i - 1].text = "Resetting context"
                /\ log[1][i - 1].depth = log[1][j].depth
       /\ log[1][j].op = "dispatch" =>
             \A i \in (j + 1)..Len(log[1]) :
                log[1][i].depth = log[1][j].depth =>
                   /\ log[1][i].op # "reset"
                   /\ ~(log[1][i].op = "notice" /\ log[1][i].text = "Resetting context")

C12_Witness ==
    /\ Completed(1)
    /\ Observed(1).kind = "returned"
    /\ call[1].templateName = "A"
    /\ templates["A"].reset = Some(<<"chat">>)
    /\ templates["A"].nInputs = 2
    /\ LET own == AtDepth(1, 1) IN
       /\ Len(own) >= 5
       /\ own[3].op = "notice" /\ own[3].text = "Resetting context"
       /\ own[4].op = "reset" /\ own[4].list = <<"chat">>
       /\ own[5].op = "dispatch"
    /\ Len(Ops(1, "dispatch")) >= 2

(***************************************************************************)
(* C13: a frame calls reset and emits the reset notice only for a reset    *)
(* list that is present and non-empty.                                     *)
(***************************************************************************)
C13_ResetOnlyWhenNonEmpty ==
    \A i \in 1..Len(log[1]) :
       (\/ log[1][i].op = "reset"
        \/ (log[1][i].op = "notice" /\ log[1][i].text = "Resetting context"))
       => /\ templates[log[1][i].name].reset # None
          /\ log[1][i].list # <<>>

(***************************************************************************)
(* C14: in a single chain, every chat dispatch of a frame whose directive  *)
(* has activeTools is made while the enabled tool list is exactly that     *)
(* list, the empty list included, and stays so while the chat is in        *)
(* flight; a frame whose directive has no activeTools never writes the     *)
(* enabled tool list.                                                      *)
(***************************************************************************)
C14_ExactlyActiveTools ==
    /\ \A i \in 1..Len(log[1]) :
          /\ (log[1][i].op = "dispatch" /\ IsSome(templates[log[1][i].name].activeTools)) =>
                log[1][i].list = Val(templates[log[1][i].name].activeTools)
          /\ log[1][i].op = "setTools" => IsSome(templates[log[1][i].name].activeTools)
    /\ stack[1] # <<>> =>
          LET f == stack[1][Len(stack[1])] IN
          (f.pc = "awaitChat" /\ IsSome(f.chatRequest.activeTools)) =>
             enabledTools[call[1].agent] = Val(f.chatRequest.activeTools)

C14_Witness ==
    /\ call[1].active
    /\ call[1].toolsBefore = <<"x">>
    /\ Len(stack[1]) = 1
    /\ stack[1][1].pc = "awaitChat"
    /\ stack[1][1].chatRequest.activeTools = Some(<<>>)
    /\ enabledTools[1] = <<>>
    /\ Len(Ops(1, "dispatch")) = 1
    /\ Ops(1, "dispatch")[1].list = <<>>

(***************************************************************************)
(* C15: the result of a top-level call that returns has one node per frame *)
(* executed, in execution order; every node has ok=true and the text of    *)
(* the last chat response of its frame (or the no-output text), and a node *)
(* is followed by another one exactly when its directive set nextTemplate. *)
(***************************************************************************)
FrameOutput(c, d) ==
    LET dispatches == Ops(c, "dispatch")
        own == {k \in 1..Len(dispatches) : dispatches[k].depth = d}
    IN  IF own = {} THEN NoOutput ELSE ChatText(Max(own))

C15_ResultMirrorsChain ==
    (Completed(1) /\ Observed(1).kind = "returned" /\ call[1].via = "direct") =>
       LET result == Observed(1).result
           invoked == Ops(1, "invoke")
       IN  /\ Len(result) = Len(invoked)
           /\ \A d \in 1..Len(result) :
                 /\ result[d].ok
                 /\ result[d].output = FrameOutput(1, d)
                 /\ invoked[d].depth = d
                 /\ (d < Len(result)) <=> IsSome(templates[invoked[d].name].nextTemplate)

C15_Witness ==
    /\ Completed(1)
    /\ Observed(1).kind = "returned"
    /\ call[1].templateName = "A"
    /\ templates["A"].nInputs = 2
    /\ templates["A"].nextTemplate = Some("B")
    /\ Observed(1).result = <<[ok |-> TRUE, output |-> "out2"], [ok |-> TRUE, output |-> NoOutput]>>

(***************************************************************************)
(* C16: two top-level calls that run concurrently, each on an agent of its *)
(* own, do not interfere: every chat of a call is dispatched and in flight *)
(* while the enabled tool list of its agent is the call's own activeTools, *)
(* and when the call has ended the list of its agent is the one enabled    *)
(* before the call.                                                        *)
(***************************************************************************)
ActiveToolsOf(c) == Val(templates[call[c].templateName].activeTools)

C16_DistinctAgentsIndependent ==
    \A c \in Chains :
       (calls > 0 /\ call[c].agent = c /\ call[c].templateName \in DOMAIN templates) =>
          /\ \A i \in 1..Len(log[c]) :
                log[c][i].op = "dispatch" => log[c][i].list = ActiveToolsOf(c)
          /\ (stack[c] # <<>> /\ stack[c][1].pc = "awaitChat") =>
                enabledTools[c] = ActiveToolsOf(c)
          /\ Completed(c) => enabledTools[c] = call[c].toolsBefore

C16_Witness ==
    /\ Completed(1) /\ call[2].active
    /\ call[1].agent = 1 /\ call[2].agent = 2
    /\ ActiveToolsOf(1) = <<"y", "z">> /\ ActiveToolsOf(2) = <<>>
    /\ call[2].toolsBefore = <<"w">>
    /\ \E i \in 1..Len(log[1]) : log[1][i].op = "setTools" /\ log[1][i].text = "restore"
    /\ stack[2][1].pc = "awaitChat"
    /\ Len(Ops(2, "dispatch")) = 2
    /\ enabledTools = [a \in Agents |-> IF a = 1 THEN <<"x">> ELSE <<>>]

(***************************************************************************)
(* C17: two top-level calls that narrow the tools of the same agent race.  *)
(* A restoration writes the snapshot its frame took, which is the initial  *)
(* list or the activeTools of the other call; a chat is dispatched under   *)
(* the list whichever call wrote last; and when both calls have ended the  *)
(* enabled list is the snapshot of one of them, not necessarily the list   *)
(* enabled before either call started.                                     *)
(***************************************************************************)
Restores(c) == SelectSeq(log[c], LAMBDA e : e.op = "setTools" /\ e.text = "restore")
Other(c) == 3 - c

C17_SharedAgentRace ==
    (/\ calls = 2
     /\ \A c \in Chains : calls > 0 /\ call[c].templateName \in DOMAIN templates /\ call[c].agent = 1)
    => /\ \A c \in Chains :
             /\ \A i \in 1..Len(log[c]) :
                   log[c][i].op = "dispatch" =>
                      log[c][i].list \in {ActiveToolsOf(c), ActiveToolsOf(Other(c)), InitialTools}
             /\ Completed(c) =>
                   /\ Len(Restores(c)) = 1
                   /\ Restores(c)[1].list \in {InitialTools, ActiveToolsOf(Other(c))}
       /\ (Completed(1) /\ Completed(2)) =>
             enabledTools[1] \in {Restores(1)[1].list, Restores(2)[1].list}

C17_Witness ==
    /\ calls = 2
    /\ Completed(1) /\ Completed(2)
    /\ call[1].agent = 1 /\ call[2].agent = 1
    /\ call[1].toolsBefore = InitialTools /\ call[2].toolsBefore = InitialTools
    /\ ActiveToolsOf(1) = <<"y", "z">> /\ ActiveToolsOf(2) = <<>>
    /\ \E i \in 1..Len(log[1]) : log[1][i].op = "dispatch" /\ log[1][i].list = <<>>
    /\ Restores(1)[1].list = InitialTools
    /\ Restores(2)[1].list = <<"y", "z">>
    /\ enabledTools[1] = <<"y", "z">>
    /\ enabledTools[1] # InitialTools

(***************************************************************************)
(* C18: after register(n, f) with a callable f, get(n) gives f; after      *)
(* unregister(n), get(n) gives nothing; neither changes what get gives for *)
(* any other name; get itself gives the registered function and changes    *)
(* nothing.                                                                *)
(***************************************************************************)
OthersKept(name) ==
    \A n \in Names \ {name} : MapGet(registry, n) = MapGet(lastOp.before, n)

C18_RegistryRoundTrip ==
    /\ (lastOp.op = "register" /\ lastOp.template \in Callables) =>
          /\ lastOp.error = None
          /\ MapGet(registry, lastOp.name) = Some(lastOp.template)
          /\ OthersKept(lastOp.name)
    /\ lastOp.op = "unregister" =>
          /\ MapGet(registry, lastOp.name) = None
          /\ lastOp.result = Some(MapHas(lastOp.before, lastOp.name))
          /\ OthersKept(lastOp.name)
    /\ lastOp.op = "get" =>
          /\ registry = lastOp.before
          /\ lastOp.result = MapGet(registry, lastOp.name)

C18_Witness ==
    /\ lastOp.op = "unregister"
    /\ lastOp.name = "A"
    /\ lastOp.before = <<Entry("B", Fn(2)), Entry("A", Fn(1))>>
    /\ lastOp.result = Some(TRUE)
    /\ registry = <<Entry("B", Fn(2))>>
    /\ MapGet(registry, "A") = None

(***************************************************************************)
(* C19: the registry holds at most one function per name after any         *)
(* sequence of operations: registering a name that is registered replaces  *)
(* its function and adds no entry, and list() has every registered name    *)
(* exactly once.                                                           *)
(***************************************************************************)
C19_OneFunctionPerName ==
    /\ \A i, j \in 1..Len(registry) : registry[i].name = registry[j].name => i = j
    /\ (lastOp.op = "register" /\ lastOp.template \in Callables
                               /\ MapHas(lastOp.before, lastOp.name)) =>
          /\ lastOp.error = None
          /\ MapGet(registry, lastOp.name) = Some(lastOp.template)
          /\ MapKeys(registry) = MapKeys(lastOp.before)
    /\ lastOp.op = "list" =>
          LET names == Val(lastOp.result) IN
          /\ \A n \in Names :
                Cardinality({i \in 1..Len(names) : names[i] = n})
                   = IF MapHas(registry, n) THEN 1 ELSE 0
          /\ Len(names) = Len(registry)

C19_Witness ==
    /\ lastOp.op = "register"
    /\ lastOp.name = "A"
    /\ lastOp.template = Fn(2)
    /\ lastOp.before = <<Entry("A", Fn(1)), Entry("B", Fn(1))>>
    /\ registry = <<Entry("A", Fn(2)), Entry("B", Fn(1))>>

(***************************************************************************)
(* C20: loadTemplates registers every entry with a callable value and      *)
(* reports and skips every other entry, wherever it stands; it throws      *)
(* nothing, keeps what was registered under names it was not given, and    *)
(* leaves the registry as it was for null, undefined or a non-object.      *)
(***************************************************************************)
C20_BulkLoadBestEffort ==
    lastOp.op = "load" =>
       /\ lastOp.error = None
       /\ lastOp.arg.kind # "object" => (registry = lastOp.before /\ lastOp.reported = <<>>)
       /\ lastOp.arg.kind = "object" =>
             LET entries == lastOp.arg.entries
                 invalid == SelectSeq(entries, LAMBDA e : e.template \notin Callables)
             IN  /\ \A i \in 1..Len(entries) :
                       IF entries[i].template \in Callables
                       THEN MapGet(registry, entries[i].name) = Some(entries[i].template)
                       ELSE MapGet(registry, entries[i].name)
                               = MapGet(lastOp.before, entries[i].name)
                 /\ lastOp.reported = MapKeys(invalid)
                 /\ \A n \in Names \ Range(MapKeys(entries)) :
                       MapGet(registry, n) = MapGet(lastOp.before, n)

C20_Witness ==
    /\ lastOp.op = "load"
    /\ lastOp.arg = LoadArg("object", <<Entry("B", NotAFunction), Entry("A", Fn(2))>>)
    /\ lastOp.before = <<Entry("C", Fn(1)), Entry("A", Fn(1))>>
    /\ lastOp.reported = <<"B">>
    /\ lastOp.error = None
    /\ registry = <<Entry("C", Fn(1)), Entry("A", Fn(2))>>

(***************************************************************************)
(* C21: register(name, value) with a value that is not callable throws the *)
(* must-be-a-function error and leaves the registry as it was: the same    *)
(* names, and under that name the function registered before, if any.      *)
(***************************************************************************)
C21_InvalidRegisterRejected ==
    (lastOp.op = "register" /\ lastOp.template \notin Callables) =>
       /\ lastOp.error = Some(MustBeFunction(lastOp.template))
       /\ registry = lastOp.before
       /\ MapKeys(registry) = MapKeys(lastOp.before)
       /\ MapGet(registry, lastOp.name) = MapGet(lastOp.before, lastOp.name)

C21_Witness ==
    /\ lastOp.op = "register"
    /\ lastOp.name = "A"
    /\ lastOp.template = NotAFunction
    /\ lastOp.error = Some(MustBeFunction(NotAFunction))
    /\ lastOp.before = <<Entry("A", Fn(1))>>
    /\ MapGet(registry, "A") = Some(Fn(1))

(***************************************************************************)
(* C22: unregister(name) returns true exactly when the name was registered *)
(* just before the call, throws nothing, leaves the name unregistered, and *)
(* an unregister of the same name that follows it returns false.           *)
(***************************************************************************)
C22_UnregisterReturn ==
    lastOp.op = "unregister" =>
       /\ lastOp.error = None
       /\ lastOp.result = Some(MapHas(lastOp.before, lastOp.name))
       /\ ~MapHas(registry, lastOp.name)

C22_SecondReturnsFalse ==
    (/\ lastOp.op = "unregister"
     /\ lastOp'.op = "unregister"
     /\ lastOp'.name = lastOp.name)
    => lastOp'.result = Some(FALSE)

C22_Unregister == [] C22_UnregisterReturn /\ [][C22_SecondReturnsFalse]_vars

C22_Witness ==
    /\ lastOp.op = "unregister"
    /\ lastOp.name = "B"
    /\ lastOp.result = Some(FALSE)
    /\ lastOp.before = <<Entry("A", Fn(1))>>
    /\ registry = <<Entry("A", Fn(1))>>

(***************************************************************************)
(* C23: get and list are pure reads: neither throws nor changes the        *)
(* registry; get of a name that is not registered gives nothing; on an     *)
(* empty registry list gives the empty sequence.                           *)
(***************************************************************************)
C23_PureReads ==
    lastOp.op \in {"get", "list"} =>
       /\ lastOp.error = None
       /\ registry = lastOp.before
       /\ (lastOp.op = "get" /\ ~MapHas(lastOp.before, lastOp.name)) => lastOp.result = None
       /\ (lastOp.op = "get" /\ MapHas(lastOp.before, lastOp.name)) => IsSome(lastOp.result)
       /\ (lastOp.op = "list" /\ lastOp.before = <<>>) => lastOp.result = Some(<<>>)

C23_Witness ==
    /\ lastOp.op = "get"
    /\ lastOp.name = "C"
    /\ lastOp.result = None
    /\ lastOp.before = <<Entry("A", Fn(1)), Entry("B", Fn(2))>>
    /\ registry = <<Entry("A", Fn(1)), Entry("B", Fn(2))>>

(***************************************************************************)
(* C24, amended: list() gives exactly the registered names, each once, in  *)
(* the order in which the entries now held were registered: registering a  *)
(* name that is held keeps its place, a new name goes to the end, a        *)
(* removal keeps the order of the others (so a name removed and registered *)
(* again is a new entry at the end); the list given is a value of its own, *)
(* equal to the names held when list was called.                           *)
(***************************************************************************)
Without(names, name) == SelectSeq(names, LAMBDA n : n # name)
NewNames(entries, held) ==
    MapKeys(SelectSeq(entries, LAMBDA e : e.template \in Callables /\ ~MapHas(held, e.name)))

C24_ListInRegistrationOrder ==
    /\ lastOp.op = "list" =>
          /\ Val(lastOp.result) = MapKeys(lastOp.before)
          /\ Range(Val(lastOp.result)) = {n \in Names : MapHas(registry, n)}
          /\ Cardinality(Range(Val(lastOp.result))) = Len(Val(lastOp.result))
    /\ (lastOp.op = "register" /\ lastOp.error = None) =>
          MapKeys(registry) =
             IF MapHas(lastOp.before, lastOp.name)
             THEN MapKeys(lastOp.before)
             ELSE Append(MapKeys(lastOp.before), lastOp.name)
    /\ lastOp.op = "unregister" =>
          MapKeys(registry) = Without(MapKeys(lastOp.before), lastOp.name)
    /\ (lastOp.op = "load" /\ lastOp.arg.kind = "object") =>
          MapKeys(registry) = MapKeys(lastOp.before) \o NewNames(lastOp.arg.entries, lastOp.before)

\* C24 as stated: list() gives the registered names in the order in which
\* the names were registered for the first time
Position(names, n) == CHOOSE i \in 1..Len(names) : names[i] = n

C24_ListInFirstRegistrationOrder ==
    lastOp.op = "list" =>
       LET names == Val(lastOp.result) IN
       /\ Range(names) = {n \in Names : MapHas(registry, n)}
       /\ \A i, j \in 1..Len(names) :
             i < j => Position(everRegistered, names[i]) < Position(everRegistered, names[j])

C24_Witness ==
    /\ lastOp.op = "list"
    /\ lastOp.result = Some(<<"B", "C", "A">>)
    /\ registry = <<Entry("B", Fn(2)), Entry("C", Fn(1)), Entry("A", Fn(1))>>
    /\ everRegistered = <<"A", "B", "C">>

(***************************************************************************)
(* C25: no step of a runTemplate call, returning or failing, creates,      *)
(* replaces or removes an entry of the service's templates.                *)
(***************************************************************************)
C25_TemplatesUntouched == [][templates' = templates]_vars

C25_Witness ==
    /\ calls = 2
    /\ Completed(1)
    /\ call[1].templateName = "A"
    /\ Observed(1) = Threw(ChatError)
    /\ DOMAIN templates = {"A", "B"}

(***************************************************************************)
(* C26: after a run of the Agent variant of TemplateRegistry.runTemplate   *)
(* that narrowed the tools to names the agent has, the enabled tool list   *)
(* is the list that was enabled just before the narrowing, whether the run *)
(* returned or failed.                                                     *)
(***************************************************************************)
C26_AgentRunRestoresEnabled ==
    (/\ Completed(1)
     /\ \E i \in 1..Len(log[1]) : log[1][i].op = "setTools" /\ log[1][i].text = "narrow")
    => enabledTools[call[1].agent] = call[1].toolsBefore

(***************************************************************************)
(* C27: every node of a result of the result-returning variant has an      *)
(* error exactly when its ok is not true, and an output exactly when its   *)
(* ok is true.                                                             *)
(***************************************************************************)
C27_ErrorIffNotOk ==
    (Completed(1) /\ Observed(1).kind = "returned") =>
       \A i \in 1..Len(Observed(1).result) :
          LET node == Observed(1).result[i] IN
          /\ IsSome(node.error) <=> node.ok # Some(TRUE)
          /\ IsSome(node.output) <=> node.ok = Some(TRUE)

(***************************************************************************)
(* C28: the visited list of the frame at depth d is the sequence of the    *)
(* template names of the frames above it, outermost first; the outermost   *)
(* frame has the empty list.                                               *)
(***************************************************************************)
C28_VisitedIsAncestry ==
    \A d \in 1..Len(stack[1]) :
       stack[1][d].visitedTemplates = [k \in 1..(d - 1) |-> stack[1][k].templateName]

C28_Witness ==
    /\ Len(stack[1]) = 3
    /\ stack[1][1].visitedTemplates = <<>>
    /\ stack[1][2].visitedTemplates = <<"A">>
    /\ stack[1][3].visitedTemplates = <<"A", "B">>
    /\ stack[1][3].templateName = "C"
    /\ stack[1][3].pc = "awaitChat"

(***************************************************************************)
(* C29: when a chained frame fails with template-not-found or with the     *)
(* circular-reference error, no frame above it returns: the top-level call *)
(* fails with that error, and by then every narrowing of the chain has     *)
(* been restored and the list enabled before the call is enabled again.    *)
(***************************************************************************)
ChainFailures == {NotFound("").message, Circular("").message}

C29_ChainedFailurePropagates ==
    \A i \in 1..Len(log[1]) :
       (log[1][i].op = "throw" /\ log[1][i].depth >= 2 /\ log[1][i].text \in ChainFailures) =>
          /\ \A d \in 1..Len(stack[1]) : stack[1][d].pc \in {"awaitNext", "threw"}
          /\ Completed(1) =>
                /\ Observed(1).kind = "threw"
                /\ Val(Observed(1).error).message = log[1][i].text
                /\ enabledTools[call[1].agent] = call[1].toolsBefore
                /\ \A j \in 1..Len(log[1]) :
                      (log[1][j].op = "setTools" /\ log[1][j].text = "narrow") =>
                         \E k \in (j + 1)..Len(log[1]) :
                            /\ log[1][k].op = "setTools" /\ log[1][k].text = "restore"
                            /\ log[1][k].depth = log[1][j].depth

C29_Witness ==
    /\ Completed(1)
    /\ call[1].templateName = "A"
    /\ CalledRegistered(1)
    /\ templates["A"].nextTemplate = Some("C")
    /\ templates["A"].activeTools = Some(<<"y", "z">>)
    /\ Observed(1) = Threw(NotFound("C"))
    /\ call[1].toolsBefore = <<"x">>
    /\ enabledTools[1] = <<"x">>
    /\ Len(Restores(1)) = 1

(***************************************************************************)
(* C30: a frame dispatches the inputs of its directive one at a time in    *)
(* list order; after a dispatch that fails (rejected, or answered with a   *)
(* finish reason other than stop) nothing more is dispatched and no        *)
(* template is run, and the call fails with that failure; a call that      *)
(* returns has dispatched every input and gives the text of the last       *)
(* response as the output of the frame.                                    *)
(***************************************************************************)
C30_InputsInOrder ==
    /\ \A d \in 1..Len(Ops(1, "invoke")) :
          LET started == Ops(1, "invoke")[d]
              inputs == InputsOf(templates[started.name].nInputs, started.text)
              sent == SelectSeq(AtDepth(1, d), LAMBDA e : e.op = "dispatch")
          IN  /\ Len(sent) <= Len(inputs)
              /\ \A k \in 1..Len(sent) : sent[k].text = inputs[k]
              /\ (Completed(1) /\ Observed(1).kind = "returned") =>
                    /\ Len(sent) = Len(inputs)
                    /\ Observed(1).result[d].output = FrameOutput(1, d)
    /\ \A d \in 1..Len(stack[1]) :
          LET f == stack[1][d] IN
          /\ f.pc = "awaitChat" =>
                Len(SelectSeq(AtDepth(1, d), LAMBDA e : e.op = "dispatch")) = f.dispatched + 1
          /\ (IsSome(f.lastResult) /\ Val(f.lastResult).finishReason # "stop") => f.pc = "threw"
    /\ \A i \in 1..Len(log[1]) :
          (log[1][i].op = "throw" /\ log[1][i].text \in ChatFailures) =>
             /\ \A j \in (i + 1)..Len(log[1]) : log[1][j].op \notin {"dispatch", "invoke", "lookup"}
             /\ Completed(1) => /\ Observed(1).kind = "threw"
                                /\ Val(Observed(1).error).message = log[1][i].text

C30_Witness ==
    /\ Completed(1)
    /\ call[1].templateName = "A"
    /\ CalledRegistered(1)
    /\ templates["A"].nInputs = MaxInputs
    /\ templates["A"].nextTemplate = Some("B")
    /\ "B" \in DOMAIN templates
    /\ Observed(1) = Threw(ChatError)
    /\ Len(Ops(1, "dispatch")) = 1
    /\ NamesOf(Ops(1, "invoke")) = <<"A">>


(***************************************************************************)
(* C31: two top-level calls in flight at once on the same agent, for       *)
(* templates with neither activeTools nor reset.  Each call completes;     *)
(* unless a chat dispatch of its own failed it returns ok = true with the  *)
(* text of its own last chat answer, whatever the other call does; no step *)
(* writes the enabled tool list.                                           *)
(***************************************************************************)
C31_OwnResult ==
    \A c \in Chains :
       /\ Completed(c) =>
             \/ Observed(c).result =
                   <<[ok |-> TRUE, output |-> ChatText(Called(c).nInputs)]>>
             \/ /\ Observed(c).kind = "threw"
                /\ Val(Observed(c).error).message \in ChatFailures
                /\ Ops(c, "throw") # <<>>
       /\ \A i \in 1..Len(log[c]) :
             /\ log[c][i].op # "setTools"
             /\ log[c][i].op = "dispatch" => log[c][i].text \in Range(InputsOf(MaxInputs, call[c].input))

C31_ConcurrentPlainRuns ==
    /\ [] C31_OwnResult
    /\ [][enabledTools' = enabledTools]_vars
    /\ \A c \in Chains : call[c].active ~> Completed(c)

C31_Witness ==
    /\ call[1].active /\ call[1].templateName = "A"
    /\ call[2].active /\ call[2].templateName = "B"
    /\ templates["A"].nInputs = 1
    /\ templates["B"].nInputs = 2
    /\ stack[1][1].pc = "returned"
    /\ stack[1][1].result = <<[ok |-> TRUE, output |-> "out1"]>>
    /\ stack[2][1].pc = "returned"
    /\ stack[2][1].result = <<[ok |-> TRUE, output |-> "out2"]>>
    /\ enabledTools[1] = call[1].toolsBefore


(***************************************************************************)
(* C32: in the result-returning variant no frame's promise is rejected and *)
(* the caller never observes a throw.  A failure of the template function  *)
(* or of the chat dispatch is caught in its own frame, which returns       *)
(* {ok: false, error} with the failure's message once the tools the frame  *)
(* narrowed are restored; every ancestor frame returns ok = true with its  *)
(* own output, the failed result nested below it as nextTemplateResult.    *)
(***************************************************************************)
Caught(c) ==
    SelectSeq(log[c], LAMBDA e : e.op = "notice" /\ e.text = "Error running template")

C32_FailuresBecomeResults ==
    /\ \A d \in 1..Len(stack[1]) : stack[1][d].pc # "threw"
    /\ ~Has(1, "throw")
    /\ stack[1] # <<>> =>
          LET f == stack[1][Len(stack[1])] IN
          (f.pc = "returned" /\ f.toolsChanged) =>
              enabledTools[call[1].agent] = Val(f.originalTools)
    /\ Len(Caught(1)) <= 1
    /\ Completed(1) =>
          /\ Observed(1).kind = "returned"
          /\ Caught(1) # <<>> =>
                LET d == Caught(1)[1].depth
                    nodes == Observed(1).result
                IN  /\ Len(nodes) = d
                    /\ nodes[d] = ResultNode(Some(FALSE), None, Some(Caught(1)[1].list[1]))
                    /\ nodes[d].error \in {Some(TemplateError.message), Some(ChatError.message)}
                    /\ \A i \in 1..(d - 1) :
                          nodes[i] = ResultNode(Some(TRUE), Some(ChatText(i)), None)
          /\ enabledTools[call[1].agent] = call[1].toolsBefore

C32_Witness ==
    /\ Completed(1)
    /\ call[1].templateName = "A"
    /\ call[1].toolsBefore = <<"x">>
    /\ Observed(1).result =
          <<ResultNode(Some(TRUE), Some("out1"), None),
            ResultNode(Some(FALSE), None, Some(ChatError.message))>>
    /\ LET writes == Ops(1, "setTools") IN
       /\ Len(writes) = 4
       /\ writes[2].text = "narrow" /\ writes[2].depth = 2
       /\ writes[3].text = "restore" /\ writes[3].depth = 2
    /\ enabledTools[1] = <<"x">>


(***************************************************************************)
(* C33: the cycle check looks at the names of the ancestor frames only, so *)
(* a frame may chain to its own name but to no name above it.  In a chain  *)
(* a name is run by at most two frames, and then by two consecutive ones;  *)
(* the frames that run a template, and the invocations of template         *)
(* functions, number at most twice the registered names.                   *)
(***************************************************************************)
FramesOf(name) == {d \in 1..Len(stack[1]) : stack[1][d].templateName = name}

C33_AtMostTwiceEach ==
    /\ \A name \in DOMAIN templates :
          /\ Cardinality(FramesOf(name)) <= 2
          /\ \A d, e \in FramesOf(name) : d < e => e = d + 1
          /\ Len(SelectSeq(Ops(1, "invoke"), LAMBDA ev : ev.name = name)) <= 2
    /\ Cardinality({d \in 1..Len(stack[1]) : stack[1][d].templateName \in DOMAIN templates})
          <= 2 * Cardinality(DOMAIN templates)
    /\ Len(Ops(1, "invoke")) <= 2 * Cardinality(DOMAIN templates)
    /\ \A d \in 1..Len(stack[1]) :
          \A e \in 1..(d - 2) : stack[1][e].templateName # stack[1][d].templateName

C33_Witness ==
    /\ DOMAIN templates = Names
    /\ [d \in 1..Len(stack[1]) |-> stack[1][d].templateName] = <<"A", "A", "B", "B", "C", "C">>
    /\ NamesOf(Ops(1, "invoke")) = <<"A", "A", "B", "B", "C", "C">>
    /\ stack[1][6].pc = "threw"
    /\ Val(stack[1][6].error) = Circular("C")


(***************************************************************************)
(* C34: a frame checks its chain link for a cycle only after its chat      *)
(* dispatches.  When the circular-reference error is raised, the raising   *)
(* frame and every frame above it have invoked their template function     *)
(* once and have had every input of their directive dispatched and         *)
(* answered; nothing is invoked or dispatched afterwards, and the caller   *)
(* gets the error and no result.                                           *)
(***************************************************************************)
C34_CycleCheckAfterChats ==
    \A i \in 1..Len(log[1]) :
       (log[1][i].op = "throw" /\ log[1][i].text = Circular("").message) =>
          LET before == SubSeq(log[1], 1, i - 1) IN
          /\ \A k \in 1..log[1][i].depth :
                LET own == SelectSeq(before, LAMBDA e : e.depth = k)
                    invoked == SelectSeq(own, LAMBDA e : e.op = "invoke")
                IN  /\ Len(invoked) = 1
                    /\ invoked[1].name \in DOMAIN templates
                    /\ Count(own, "dispatch") = templates[invoked[1].name].nInputs
                    /\ Len(SelectSeq(own, LAMBDA e : e.op = "notice" /\ e.text = "Input Complete"))
                          = templates[invoked[1].name].nInputs
          /\ \A j \in (i + 1)..Len(log[1]) : log[1][j].op \notin {"dispatch", "invoke", "lookup"}
          /\ Completed(1) =>
                /\ Observed(1).kind = "threw"
                /\ Val(Observed(1).error).message = Circular("").message
                /\ Observed(1).result = <<>>

C34_Witness ==
    /\ Completed(1)
    /\ call[1].templateName = "A"
    /\ CalledRegistered(1)
    /\ templates["A"].nInputs = 1
    /\ templates["A"].nextTemplate = Some("B")
    /\ "B" \in DOMAIN templates
    /\ templates["B"].nInputs = 2
    /\ templates["B"].nextTemplate = Some("A")
    /\ Observed(1) = Threw(Circular("A"))
    /\ NamesOf(Ops(1, "dispatch")) = <<"A", "B", "B">>
    /\ Ops(1, "throw")[1].depth = 2


(***************************************************************************)
(* C35: the narrowing of a frame stays in force for its whole sub-chain.   *)
(* A chat dispatched by a frame without activeTools of its own, below a    *)
(* narrowing frame, sees as enabled tools the activeTools of the nearest   *)
(* narrowing frame above it; a frame restores only when everything below   *)
(* it has settled, so no deeper frame acts after a restoration.            *)
(***************************************************************************)
InvokedAt(c, d) ==
    LET own == SelectSeq(AtDepth(c, d), LAMBDA e : e.op = "invoke") IN templates[own[1].name]

NarrowingAbove(c, d) == {k \in 1..(d - 1) : IsSome(InvokedAt(c, k).activeTools)}

C35_NarrowingCoversSubChain ==
    /\ \A i \in 1..Len(log[1]) :
          LET e == log[1][i] IN
          /\ (/\ e.op = "dispatch"
              /\ ~IsSome(InvokedAt(1, e.depth).activeTools)
              /\ NarrowingAbove(1, e.depth) # {}) =>
                e.list = Val(InvokedAt(1, Max(NarrowingAbove(1, e.depth))).activeTools)
          /\ (e.op = "setTools" /\ e.text = "restore") =>
                \A j \in (i + 1)..Len(log[1]) : log[1][j].depth <= e.depth
    /\ \A d \in 1..Len(stack[1]) :
          (stack[1][d].pc = "awaitChat"
             /\ ~IsSome(stack[1][d].chatRequest.activeTools)
             /\ NarrowingAbove(1, d) # {}) =>
                enabledTools[call[1].agent] =
                   Val(stack[1][Max(NarrowingAbove(1, d))].chatRequest.activeTools)

C35_Witness ==
    /\ call[1].active
    /\ call[1].toolsBefore = <<"x">>
    /\ Len(stack[1]) = 3
    /\ stack[1][1].chatRequest.activeTools = Some(<<"y", "z">>)
    /\ stack[1][2].chatRequest.activeTools = None
    /\ stack[1][3].chatRequest.activeTools = None
    /\ stack[1][3].pc = "awaitChat"
    /\ Ops(1, "dispatch")[Len(Ops(1, "dispatch"))].depth = 3
    /\ Ops(1, "dispatch")[Len(Ops(1, "dispatch"))].list = <<"y", "z">>
    /\ enabledTools[1] = <<"y", "z">>


(***************************************************************************)
(* C36: in the inputs-based runTemplate a chat answer whose finishReason   *)
(* is not "stop" fails the frame at once with the did-not-stop error: no   *)
(* further input is dispatched, the chain link is not followed, and the    *)
(* tools the frame narrowed are restored by the time its promise is        *)
(* rejected; the caller of the top-level call gets that error.             *)
(***************************************************************************)
DidNotStop == ChatDidNotStop("length")

C36_NotStoppedFailsAtOnce ==
    /\ \A d \in 1..Len(stack[1]) :
          LET f == stack[1][d] IN
          (IsSome(f.lastResult) /\ Val(f.lastResult).finishReason # "stop") =>
             /\ f.pc = "threw"
             /\ f.error = Some(ChatDidNotStop(Val(f.lastResult).finishReason))
             /\ d = Len(stack[1])
             /\ Count(AtDepth(1, d), "dispatch") = f.dispatched + 1
             /\ f.toolsChanged => enabledTools[call[1].agent] = Val(f.originalTools)
    /\ \A i \in 1..Len(log[1]) :
          (log[1][i].op = "throw" /\ log[1][i].text = DidNotStop.message) =>
             /\ \A j \in (i + 1)..Len(log[1]) :
                   /\ log[1][j].op \notin {"dispatch", "invoke", "lookup"}
                   /\ log[1][j].text # "Running next template"
             /\ IsSome(InvokedAt(1, log[1][i].depth).activeTools) =>
                   /\ i < Len(log[1])
                   /\ log[1][i + 1].op = "setTools"
                   /\ log[1][i + 1].text = "restore"
                   /\ log[1][i + 1].depth = log[1][i].depth
             /\ Completed(1) => Observed(1) = Threw(DidNotStop)

C36_Witness ==
    /\ Completed(1)
    /\ call[1].templateName = "A"
    /\ call[1].toolsBefore = <<"x">>
    /\ CalledRegistered(1)
    /\ templates["A"] = TemplateFunction(FALSE, 2, Some("B"), None, Some(<<"y", "z">>))
    /\ "B" \in DOMAIN templates
    /\ Observed(1) = Threw(DidNotStop)
    /\ Len(Ops(1, "dispatch")) = 1
    /\ NamesOf(Ops(1, "invoke")) = <<"A">>
    /\ Len(Restores(1)) = 1
    /\ enabledTools[1] = <<"x">>


(***************************************************************************)
(* C37: a frame of the inputs-based runTemplate whose directive has an     *)
(* empty inputs list dispatches no chat.  It still goes on: a call that    *)
(* returns has ok = true and the output "No output from AI." for that      *)
(* frame, and the template the frame chains to is invoked with that very   *)
(* text as its input.                                                      *)
(***************************************************************************)
C37_EmptyInputs ==
    \A i \in 1..Len(log[1]) :
       LET e == log[1][i] IN
       (e.op = "invoke" /\ templates[e.name].nInputs = 0 /\ ~templates[e.name].throws) =>
          /\ Count(AtDepth(1, e.depth), "dispatch") = 0
          /\ \A j \in 1..Len(log[1]) :
                (log[1][j].op = "invoke" /\ log[1][j].depth = e.depth + 1) =>
                   log[1][j].text = NoOutput
          /\ (Completed(1) /\ Observed(1).kind = "returned") =>
                Observed(1).result[e.depth] = [ok |-> TRUE, output |-> NoOutput]

C37_Witness ==
    /\ Completed(1)
    /\ call[1].templateName = "A"
    /\ CalledRegistered(1)
    /\ templates["A"].nInputs = 0
    /\ templates["A"].nextTemplate = Some("B")
    /\ "B" \in DOMAIN templates
    /\ templates["B"].nInputs = 1
    /\ templates["B"].nextTemplate = None
    /\ Observed(1).result = <<[ok |-> TRUE, output |-> NoOutput], [ok |-> TRUE, output |-> "out1"]>>
    /\ Ops(1, "invoke")[2].text = NoOutput
    /\ Len(Ops(1, "dispatch")) = 1
    /\ Ops(1, "dispatch")[1].text = NoOutput


(***************************************************************************)
(* C38: in the TemplateRegistry variant that validates tool names, a       *)
(* directive whose activeTools names a tool the agent does not have fails  *)
(* the frame with the unknown-tools error before the frame writes the      *)
(* enabled tools: the frame makes no write, neither a narrowing nor a      *)
(* restoration, announces none and dispatches no chat, and the enabled     *)
(* list is what it was when the frame was entered; a reset asked for by    *)
(* the same directive has been applied by then.                            *)
(***************************************************************************)
LastWritten(c, evlog) ==
    LET writes == SelectSeq(evlog, LAMBDA e : e.op = "setTools") IN
    IF writes = <<>> THEN call[c].toolsBefore ELSE writes[Len(writes)].list

Parsed(remainder) ==
    CASE remainder = <<>> -> None
      [] remainder = <<" ">> -> None
      [] remainder = <<"A">> -> Some(<<"A", "">>)
      [] remainder = <<"B", " ", "h", "i">> -> Some(<<"B", "hi">>)
      [] remainder = <<"C", " ", "h", "i">> -> Some(<<"C", "hi">>)
      [] remainder = <<" ", "A", " ", " ", "h", " ", "i", " ">> -> Some(<<"A", "h i">>)
      [] remainder = <<"B", "\t", "h", " ", "\t", "i", "\n">> -> Some(<<"B", "h i">>)

C39_CommandStep ==
    \A remainder \in Remainders :
       CommandRun(1, 1, remainder) =>
          IF IsSome(Parsed(remainder))
          THEN /\ call'[1].active
               /\ call'[1].templateName = Val(Parsed(remainder))[1]
               /\ call'[1].input = Val(Parsed(remainder))[2]
               /\ Len(stack'[1]) = 1
               /\ stack'[1][1].templateName = Val(Parsed(remainder))[1]
               /\ stack'[1][1].input = Val(Parsed(remainder))[2]
               /\ stack'[1][1].visitedTemplates = <<>>
               /\ outcome'[1] = None
          ELSE /\ ~call'[1].active
               /\ outcome'[1] = Some(Returned(<<>>, "Please provide a template name."))
               /\ stack'[1] = <<>>
               /\ log'[1] = <<>>
               /\ enabledTools' = enabledTools

C39_OneEngineCall ==
    call[1].via = "command" =>
       /\ Len(SelectSeq(AtDepth(1, 1), LAMBDA e : e.op = "lookup")) <= 1
       /\ Len(SelectSeq(AtDepth(1, 1), LAMBDA e : e.op = "invoke")) <= 1
       /\ call[1].templateName = "" =>
             /\ log[1] = <<>>
             /\ stack[1] = <<>>
             /\ NoSideEffect(1)

C39_CommandRun == [] C39_OneEngineCall /\ [][C39_CommandStep]_vars

C39_Witness ==
    /\ Completed(1)
    /\ call[1].via = "command"
    /\ call[1].templateName = "A"
    /\ call[1].input = "h i"
    /\ CalledRegistered(1)
    /\ NamesOf(Ops(1, "invoke")) = <<"A">>
    /\ Ops(1, "invoke")[1].text = "h i"
    /\ Observed(1) = Returned(<<>>, "Template executed")

====
